---- MODULE Spec2Model ----
(***************************************************************************)
(* Model of the accio-js HttpClient (src/src/client.ts): the attempt /     *)
(* retry / backoff path of fetchWithRetry, the per-attempt timeout timer   *)
(* and the events it emits, driven by a caller and by a fetch transport.   *)
(*                                                                         *)
(* JavaScript runs the code between two awaits without interruption, so    *)
(* each action is one such run: from the call (or the wake-up of an await) *)
(* to the next await or to the settlement of the call's promise.           *)
(***************************************************************************)
EXTENDS Integers, Sequences, FiniteSets, TLC

(***************************************************************************)
(* Bounds of the model.                                                    *)
(***************************************************************************)
NumCalls == 1          \* fetch calls the caller issues on the one client
NumSeqCalls == 2       \* fetch calls the caller issues one after another (SeqSpec)
NumConcCalls == 2      \* fetch calls the caller has in flight at once (ConcSpec)
MaxConcRetries == 1    \* largest retry.maxRetries of the client of ConcSpec
MaxMaxRetries == 2     \* largest retry.maxRetries a client is configured with
RandomScale == 4       \* Math.random() draws r/RandomScale, r in 0..RandomScale-1
MaxRegistrations == 2   \* largest number of listeners registered at once (SubSpec)
MaxBackoffAttempt == 5  \* largest attempt number a backoff is computed for (DelaySpec)

\* the calls a caller may issue; those it does not issue stay idle
Calls == 1..(IF NumSeqCalls >= NumConcCalls THEN NumSeqCalls ELSE NumConcCalls)

(***************************************************************************)
(* Inputs: what the caller configures and what the transport answers.      *)
(***************************************************************************)
Statuses == {200, 404, 503}              \* statuses the transport answers with
Bodies == {"match", "notjson"}           \* raw bodies of non-2xx answers
TransportErrors == {"TypeError"}         \* rejections other than an abort
Timeouts == {0, 50}                      \* config.timeout, in ms, when given
ShouldRetryKinds == {"default", "firstAttempt", "responseContains"}

\* const DEFAULT_CONFIG: Required<RetryConfig>  (jitter 0.1 kept as 1/10)
DEFAULT_CONFIG ==
    [maxRetries |-> 3,
     initialDelay |-> 100,
     maxDelay |-> 1000,
     jitter |-> [num |-> 1, den |-> 10],
     retryableStatuses |-> {408, 429, 500, 502, 503, 504},
     shouldRetry |-> "default"]

RetryableChoices == {DEFAULT_CONFIG.retryableStatuses, {404}}

\* headers: records from header keys to values; none given is the empty record
NoHeaders == [k \in {} |-> ""]
ClientHeaders == [k \in {"x-test"} |-> "client"]
ClientHeaderChoices ==
    {NoHeaders, ClientHeaders, [k \in {"accept", "x-test"} |-> "client"]}
CallHeaderChoices ==
    {NoHeaders, [k \in {"x-test"} |-> "call"], [k \in {"accept", "x-test"} |-> "call"]}

\* config.retry as the caller supplies it: nothing, the three options of the
\* retry test of part_001, or one or two options only
NoRetry == [k \in {} |-> 0]
UserRetryChoices ==
    {NoRetry,
     [maxRetries |-> 2, initialDelay |-> 10, maxDelay |-> 100],
     [retryableStatuses |-> {404}],
     [maxRetries |-> 1, shouldRetry |-> "firstAttempt"]}

\* the init = {} default of fetch(url, init)
EmptyInit ==
    [method |-> "none", headers |-> NoHeaders, body |-> "none",
     signal |-> [kind |-> "none"]]

\* the request options of the calls of Spec, and those of OptionsSpec
CallInits == {[EmptyInit EXCEPT !.headers = [k \in {"accept"} |-> "call"]]}
OptionInits == {[EmptyInit EXCEPT !.headers = h] : h \in CallHeaderChoices}

\* retry.initialDelay, retry.maxDelay and retry.jitter (as num/den) of DelaySpec
InitialDelays == {10, 100}
MaxDelays == {50, 1000}
Jitters == {[num |-> 0, den |-> 1], [num |-> 1, den |-> 10],
            [num |-> 1, den |-> 2], [num |-> 1, den |-> 1]}

\* the url the caller passes in call c (one url per call)
UrlOf(c) == c

VARIABLES
    config,       \* this.config and this.retryConfig, fixed at construction
    pc,           \* pc[c]: where call c is suspended
    attempt,      \* attempt[c]: the attempt parameter of the running fetchWithRetry
    timers,       \* pending timeout timers, one per armed and not cleared timeoutId
    wait,         \* wait[c]: the backoff delay call c sleeps on, scaled (see JitterDelay)
    pending,      \* pending[c]: the response whose body call c is reading
    result,       \* result[c]: the value call c's promise settled with
    events,       \* every event emitted by this.events, in emission order
    invocations,  \* invocations[c]: times call c invoked the transport
    outcomes,     \* outcomes[c]: what the transport did with each invocation
    init,         \* init[c]: the request options call c was made with
    sent,         \* sent[c]: the requests the transport received from call c
    asked,        \* asked[c]: the arguments shouldRetry was called with in call c
    called,       \* called[c]: the method of the client call c was made by, and its options
    subs,         \* subs[kind]: the listeners of this.events for the kind, as registered
    delivered,    \* every invocation of a listener, with its arguments, in order
    probe,        \* an HttpError a caller holds, and the last method called on it
    aborted       \* aborted[c]: where call c was when its caller aborted the signal
                  \* it holds for that call, if it has

vars == <<config, pc, attempt, timers, wait, pending, result, events,
          invocations, outcomes, init, sent, asked, called, subs, delivered,
          probe, aborted>>

NoValue == [kind |-> "none"]

Last(seq) == seq[Len(seq)]

(***************************************************************************)
(* Values.                                                                 *)
(***************************************************************************)
\* new HttpError(message, status, url, responseBody); id: the attempt that built it
HttpError(status, url, responseBody, id) ==
    [kind |-> "error", name |-> "HttpError", status |-> status, url |-> url,
     responseBody |-> responseBody, id |-> id]

\* an error raised by the transport: the abort DOMException or a fetch failure
TransportError(name, id) ==
    [kind |-> "error", name |-> name, status |-> 0, url |-> 0,
     responseBody |-> "none", id |-> id]

Response(status, body) == [kind |-> "response", status |-> status, body |-> body]

\* response.ok with the lower end excluded
ResponseOkAbove200(status) == status > 200 /\ status <= 299

\* response.ok without its upper end
ResponseOkNoUpperEnd(status) == status >= 200

\* response.ok
ResponseOk(status) == status >= 200 /\ status <= 299

\* await clonedResponse.json() with its catch: a body that does not parse gives {}
ParseBody(body) == IF body = "notjson" THEN "emptyObject" ELSE body

\* error.responseContains(text) for the text the configured predicate looks for
ResponseContains(error) ==
    IF error.responseBody = "none" THEN FALSE ELSE error.responseBody = "match"

\* this.retryConfig.shouldRetry(error, attempt)
ShouldRetry(error, n) ==
    CASE config.shouldRetry = "default" -> TRUE
      [] config.shouldRetry = "firstAttempt" -> n = 1
      [] config.shouldRetry = "responseContains" -> ResponseContains(error)

\* error instanceof Error && error.name === "AbortError"
IsAbortError(error) == error.kind = "error" /\ error.name = "AbortError"

\* error instanceof HttpError
IsHttpError(error) == error.kind = "error" /\ error.name = "HttpError"

(***************************************************************************)
(* Events.                                                                 *)
(***************************************************************************)
Event(kind, c, n, status, error) ==
    [kind |-> kind, call |-> c, attempt |-> n, url |-> UrlOf(c),
     status |-> status, error |-> error, init |-> NoValue]

StartEvent(c, n, i) == [Event("start", c, n, 0, NoValue) EXCEPT !.init = i]
EndEvent(c, n, status) == Event("end", c, n, status, NoValue)
ErrorEvent(c, n, error) == Event("error", c, n, 0, error)
RetryEvent(c, n, error) == Event("retry", c, n, 0, error)

EventKinds == {"start", "end", "error", "retry"}

\* the listeners a caller registers; "faulty" throws whenever it is invoked
Listeners == {"first", "second", "faulty"}
Throws(l) == l = "faulty"

KindIndex(kind) ==
    CASE kind = "start" -> 1 [] kind = "end" -> 2
      [] kind = "error" -> 3 [] kind = "retry" -> 4

\* the exception a faulty listener throws when it is invoked for event e: an
\* Error that is neither an AbortError nor an HttpError
ListenerError(e) ==
    [kind |-> "error", name |-> "Error", status |-> 0, url |-> 0,
     responseBody |-> "none", id |-> 0 - (10 * e.attempt + KindIndex(e.kind))]

\* the arguments a listener of each kind is called with; the response is
\* known by its status, and the duration (a clock reading) is left out
Payload(e) ==
    CASE e.kind = "start" -> [url |-> e.url, init |-> e.init]
      [] e.kind = "end" -> [url |-> e.url, status |-> e.status]
      [] e.kind \in {"error", "retry"} ->
             [url |-> e.url, error |-> e.error, attempt |-> e.attempt]

\* one call of listener l, for the event of kind e.kind of attempt e.attempt of
\* call e.call
Invocation(l, e) ==
    [listener |-> l, kind |-> e.kind, call |-> e.call, attempt |-> e.attempt,
     args |-> Payload(e)]

\* an emitter that invokes the listener registered last first
RECURSIVE InvokedNewestFirst(_, _)
InvokedNewestFirst(ls, e) ==
    IF ls = <<>> THEN <<>>
    ELSE IF Throws(Last(ls)) THEN <<Invocation(Last(ls), e)>>
         ELSE <<Invocation(Last(ls), e)>>
                  \o InvokedNewestFirst(SubSeq(ls, 1, Len(ls) - 1), e)

\* EventEmitter.emit: the listeners ls invoked one after another, in the order
\* they were registered in, up to the first that throws
RECURSIVE Invoked(_, _)
Invoked(ls, e) ==
    IF ls = <<>> THEN <<>>
    ELSE IF Throws(Head(ls)) THEN <<Invocation(Head(ls), e)>>
         ELSE <<Invocation(Head(ls), e)>> \o Invoked(Tail(ls), e)

\* an emitter that keeps the exceptions of its listeners to itself
EmitThrowsNever(e) == FALSE

\* this.events.emit(...) of event e throws
EmitThrows(e) == \E k \in DOMAIN subs[e.kind] : Throws(subs[e.kind][k])

\* the emissions of one straight run of code: each event of es is emitted in
\* turn until an emission throws, which ends the run with that exception;
\* emitting an event of a kind without listeners invokes nothing
RECURSIVE Emission(_)
Emission(es) ==
    IF \A k \in DOMAIN es : subs[es[k].kind] = <<>>
    THEN [emitted |-> es, delivered |-> <<>>, thrown |-> NoValue]
    ELSE LET e == Head(es)
         IN IF EmitThrows(e)
            THEN [emitted |-> <<e>>, delivered |-> Invoked(subs[e.kind], e),
                  thrown |-> ListenerError(e)]
            ELSE LET rest == Emission(Tail(es))
                 IN [emitted |-> <<e>> \o rest.emitted,
                     delivered |-> Invoked(subs[e.kind], e) \o rest.delivered,
                     thrown |-> rest.thrown]

(***************************************************************************)
(* Backoff.                                                                *)
(***************************************************************************)
RECURSIVE Pow2(_)
Pow2(k) == IF k <= 0 THEN 1 ELSE 2 * Pow2(k - 1)

Min(a, b) == IF a <= b THEN a ELSE b

\* the exponential delay with the attempt number itself as the exponent
DelayExponentN(n) == Min(config.initialDelay * Pow2(n), config.maxDelay)

\* Math.min(initialDelay * Math.pow(2, attempt - 1), maxDelay)
Delay(n) == Min(config.initialDelay * Pow2(n - 1), config.maxDelay)

\* the denominator the jittered delay is kept over
DelayScale == RandomScale * config.jitter.den

\* the draws of Math.random() a running call is given: the lowest and the highest
BackoffDraws == {0, RandomScale - 1}

\* delay * (1 + (Math.random() * 2 - 1) * jitter), with Math.random() = r/RandomScale,
\* as the numerator of a fraction over DelayScale
JitterDelay(delay, r) ==
    delay * (DelayScale + (2 * r - RandomScale) * config.jitter.num)

(***************************************************************************)
(* The steps of fetchWithRetry.                                            *)
(***************************************************************************)
Settled(c) == pc[c] \in {"resolved", "rejected"}
InFlight(c) == pc[c] \in {"fetching", "reading", "backoff"}

\* a timer armed whenever a timeout is defined: this.config.timeout !== undefined
TimerArmedWhenDefined == "timeout" \in DOMAIN config

\* this.config.timeout ? setTimeout(...) : null; a timeout that was not given
\* reads as undefined, which is falsy as 0 is
TimerArmed == "timeout" \in DOMAIN config /\ config.timeout # 0

\* the outermost frame rejecting with the first failure it caught instead of
\* the rejection of the recursive call
RejectionOfFirstFailure(c, error) ==
    LET errs == SelectSeq(events, LAMBDA e : e.call = c /\ e.kind = "error")
    IN IF errs = <<>> THEN error ELSE errs[1].error

\* the value the caller's promise rejects with: `throw error` in the outermost
\* frame, or the rejection of the recursive call returned from the catch block
Rejection(c, error) == error

\* the retry test with attempt < maxRetries
RetryGrantedBelowMax(error, n) ==
    /\ n < config.maxRetries
    /\ IsHttpError(error)
    /\ error.status \in config.retryableStatuses
    /\ ShouldRetry(error, n)

\* the retry test with shouldRetryStatus || shouldRetryCustom
RetryGrantedEither(error, n) ==
    /\ n <= config.maxRetries
    /\ IsHttpError(error)
    /\ (error.status \in config.retryableStatuses \/ ShouldRetry(error, n))

\* the retry test without the instanceof HttpError and status tests
RetryGrantedAnyError(error, n) ==
    /\ n <= config.maxRetries
    /\ ShouldRetry(error, n)

\* attempt <= maxRetries && error instanceof HttpError &&
\* shouldRetryStatus && shouldRetryCustom
RetryGranted(error, n) ==
    /\ n <= config.maxRetries
    /\ IsHttpError(error)
    /\ error.status \in config.retryableStatuses
    /\ ShouldRetry(error, n)

\* a body read whose parse error is thrown instead of being replaced by {}
ThrownParseError(c, response, n) ==
    IF response.body = "notjson"
    THEN TransportError("SyntaxError", n)
    ELSE HttpError(response.status, UrlOf(c), response.body, n)

\* what the !response.ok branch throws in attempt n: the HttpError built from
\* the status, the url and the parsed body (or {})
ThrownForResponse(c, response, n) ==
    HttpError(response.status, UrlOf(c), ParseBody(response.body), n)

\* a catch block that treats an abort like any retryable failure
CatchBlockRetriesAbort(c, error, n) ==
    IF n <= config.maxRetries /\ (IsAbortError(error) \/ RetryGranted(error, n))
    THEN [emit |-> <<ErrorEvent(c, n, error), RetryEvent(c, n, error)>>,
          retry |-> TRUE]
    ELSE [emit |-> <<ErrorEvent(c, n, error)>>, retry |-> FALSE]

\* a catch block that emits request:retry before request:error
CatchBlockRetryFirst(c, error, n) ==
    IF IsAbortError(error)
    THEN [emit |-> <<ErrorEvent(c, n, error)>>, retry |-> FALSE]
    ELSE IF RetryGranted(error, n)
         THEN [emit |-> <<RetryEvent(c, n, error), ErrorEvent(c, n, error)>>,
               retry |-> TRUE]
         ELSE [emit |-> <<ErrorEvent(c, n, error)>>, retry |-> FALSE]

\* a catch block that retries without emitting request:retry
CatchBlockSilentRetry(c, error, n) ==
    IF IsAbortError(error)
    THEN [emit |-> <<ErrorEvent(c, n, error)>>, retry |-> FALSE]
    ELSE [emit |-> <<ErrorEvent(c, n, error)>>, retry |-> RetryGranted(error, n)]

\* a catch block whose enclosing frames catch the rejection of the recursive
\* call too: each of them emits request:error for it with its own attempt number
CatchBlockReemits(c, error, n) ==
    IF ~IsAbortError(error) /\ RetryGranted(error, n)
    THEN [emit |-> <<ErrorEvent(c, n, error), RetryEvent(c, n, error)>>,
          retry |-> TRUE]
    ELSE [emit |-> <<ErrorEvent(c, n, error)>> \o
                       [k \in 1..(n - 1) |-> ErrorEvent(c, n - k, error)],
          retry |-> FALSE]

\* a catch block that emits request:retry for a retryable failure before it
\* looks at the attempt number, and then gives up past maxRetries
CatchBlockAnnouncesRetry(c, error, n) ==
    IF IsAbortError(error)
    THEN [emit |-> <<ErrorEvent(c, n, error)>>, retry |-> FALSE]
    ELSE IF RetryGranted(error, 1)
         THEN [emit |-> <<ErrorEvent(c, n, error), RetryEvent(c, n, error)>>,
               retry |-> n <= config.maxRetries]
         ELSE [emit |-> <<ErrorEvent(c, n, error)>>, retry |-> FALSE]

\* the catch block: the events it emits and whether it goes on to a retry
CatchBlock(c, error, n) ==
    IF IsAbortError(error)
    THEN [emit |-> <<ErrorEvent(c, n, error)>>, retry |-> FALSE]
    ELSE IF RetryGranted(error, n)
         THEN [emit |-> <<ErrorEvent(c, n, error), RetryEvent(c, n, error)>>,
               retry |-> TRUE]
         ELSE [emit |-> <<ErrorEvent(c, n, error)>>, retry |-> FALSE]

\* request:end emitted only for a response that is ok
ResponseEventsOkOnly(c, n, status) ==
    IF ResponseOk(status) THEN <<EndEvent(c, n, status)>> ELSE <<>>

\* what is emitted once the transport has answered
ResponseEvents(c, n, status) == <<EndEvent(c, n, status)>>

\* an attempt parameter that counts the first try as attempt 0
FirstAttemptZero == 1 - 1

\* attempt = 1, the default of the attempt parameter
FirstAttempt == 1

\* a recursive call that skips an attempt number
NextAttemptSkips(n) == n + 2

\* an attempt counter kept on the client and shared by its calls
NextAttemptShared(n) ==
    LET highest == CHOOSE a \in {attempt[c] : c \in Calls} :
                       \A c \in Calls : attempt[c] <= a
    IN highest + 1

\* a recursive call that passes its own attempt number on
NextAttemptRepeats(n) == n

\* the attempt number the recursive call is given
NextAttempt(n) == n + 1

\* new AbortController() of attempt n of call c
Controller(c, n) == [call |-> c, attempt |-> n]

\* a timer that is given what is left of one deadline of the whole call
TimerOfCallDeadline(c, n) ==
    [controller |-> Controller(c, n), ms |-> config.timeout \div n]

\* setTimeout(() => controller.abort(), this.config.timeout) of attempt n
Timer(c, n) == [controller |-> Controller(c, n), ms |-> config.timeout]

\* a clearTimeout that is given the timer of the first attempt of the call
ClearTimeoutOfFirstAttempt(c, n) == timers \ {Timer(c, FirstAttempt)}

\* a timer that is cleared by nothing
ClearTimeoutNever(c, n) == timers

\* if (timeoutId) clearTimeout(timeoutId)
ClearTimeout(c, n) == IF TimerArmed THEN timers \ {Timer(c, n)} ELSE timers

\* a merge in which the client-level value wins on a key given by both
MergeHeadersDefaultsWin(defaults, own) == defaults @@ own

\* { ...this.config.headers, ...init.headers }
MergeHeaders(defaults, own) == own @@ defaults

\* the signal of the AbortController the caller of call c holds
CallerSignal(c) == [owner |-> "caller", call |-> c]

\* a request that keeps the signal of the options when they have one:
\* { signal: controller.signal, ...init, headers: {...} }
TransportRequestCallerSignal(c, n, i) ==
    [url |-> UrlOf(c), method |-> i.method, body |-> i.body,
     headers |-> MergeHeaders(config.headers, i.headers),
     signal |-> IF i.signal = [kind |-> "none"] THEN Controller(c, n) ELSE i.signal]

\* { ...init, headers: {...}, signal: controller.signal }, with the url
TransportRequest(c, n, i) ==
    [url |-> UrlOf(c), method |-> i.method, body |-> i.body,
     headers |-> MergeHeaders(config.headers, i.headers),
     signal |-> Controller(c, n)]

\* shouldRetryStatus && this.retryConfig.shouldRetry(error, attempt): shouldRetry
\* short-circuited away when the status is not retryable
ShouldRetryCallsShortCircuit(error, n) ==
    IF /\ ~IsAbortError(error) /\ n <= config.maxRetries /\ IsHttpError(error)
       /\ error.status \in config.retryableStatuses
    THEN <<[error |-> error, attempt |-> n]>>
    ELSE <<>>

\* the calls of shouldRetry the catch block makes for `error` in attempt n
ShouldRetryCalls(error, n) ==
    IF ~IsAbortError(error) /\ n <= config.maxRetries /\ IsHttpError(error)
    THEN <<[error |-> error, attempt |-> n]>>
    ELSE <<>>

\* the catch block run on `error` thrown in attempt n of call c, the events
\* `before` having been emitted by the try block; an exception thrown by a
\* listener of request:error or request:retry leaves the catch block at once
Catch(c, n, error, before) ==
    LET cb == CatchBlock(c, error, n)
        tried == Emission(before)
        em == Emission(cb.emit)
    IN /\ events' = events \o before \o em.emitted
       /\ delivered' = delivered \o tried.delivered \o em.delivered
       /\ asked' = IF em.thrown # NoValue /\ Len(em.emitted) = 1
                   THEN asked
                   ELSE [asked EXCEPT ![c] = @ \o ShouldRetryCalls(error, n)]
       /\ IF em.thrown # NoValue
          THEN /\ pc' = [pc EXCEPT ![c] = "rejected"]
               /\ result' = [result EXCEPT ![c] = em.thrown]
               /\ wait' = [wait EXCEPT ![c] = 0]
          ELSE IF cb.retry
          THEN /\ \E r \in BackoffDraws :
                      wait' = [wait EXCEPT ![c] = JitterDelay(Delay(n), r)]
               /\ pc' = [pc EXCEPT ![c] = "backoff"]
               /\ UNCHANGED result
          ELSE /\ pc' = [pc EXCEPT ![c] = "rejected"]
               /\ result' = [result EXCEPT ![c] = Rejection(c, error)]
               /\ wait' = [wait EXCEPT ![c] = 0]

\* from the top of fetchWithRetry(url, i, n) to `await fetch(...)`, or through
\* the catch block when a listener of request:start throws
BeginAttempt(c, n, i) ==
    LET em == Emission(<<StartEvent(c, n, i)>>)
    IN /\ attempt' = [attempt EXCEPT ![c] = n]
       /\ init' = [init EXCEPT ![c] = i]
       /\ IF em.thrown # NoValue
          THEN /\ Catch(c, n, em.thrown, em.emitted)
               /\ UNCHANGED <<timers, invocations, sent>>
          ELSE /\ events' = events \o em.emitted
               /\ delivered' = delivered \o em.delivered
               /\ timers' = IF TimerArmed THEN timers \cup {Timer(c, n)}
                                          ELSE timers
               /\ invocations' = [invocations EXCEPT ![c] = @ + 1]
               /\ sent' = [sent EXCEPT ![c] = Append(@, TransportRequest(c, n, i))]
               /\ pc' = [pc EXCEPT ![c] = "fetching"]
               /\ wait' = [wait EXCEPT ![c] = 0]
               /\ UNCHANGED <<result, asked>>

(***************************************************************************)
(* Actions.                                                                *)
(***************************************************************************)
\* the listeners registered on the client, over all kinds
Registered == Len(subs["start"]) + Len(subs["end"]) + Len(subs["error"])
                  + Len(subs["retry"])

\* the caller awaits each call before it issues the next
CallerReady == \A d \in Calls : ~InFlight(d)

\* the first frame of a call made by client.<via>(url, supplied):
\* fetchWithRetry(url, i) with attempt = 1
FirstFrame(c, via, supplied, i) ==
    /\ pc[c] = "idle"
    /\ \A d \in Calls : d < c => pc[d] # "idle"
    /\ called' = [called EXCEPT ![c] = [via |-> via, init |-> supplied]]
    /\ BeginAttempt(c, FirstAttempt, i)
    /\ UNCHANGED <<config, probe, aborted, pending, outcomes, subs>>

\* client.fetch(url, init): fetchWithRetry(url, init) with attempt = 1
Fetch(c, i) ==
    /\ CallerReady
    /\ FirstFrame(c, "fetch", i, i)

\* { method: "X", ...init }: a method given in the options wins
WithMethodSuppliedWins(i, method) ==
    IF i.method = "none" THEN [i EXCEPT !.method = method] ELSE i

\* { ...init, method: "X" }
WithMethod(i, method) == [i EXCEPT !.method = method]

\* client.get(url, init): this.fetch(url, { ...init, method: "GET" })
Get(c, i) ==
    /\ CallerReady
    /\ FirstFrame(c, "get", i, WithMethod(i, "GET"))

\* client.post(url, init)
Post(c, i) ==
    /\ CallerReady
    /\ FirstFrame(c, "post", i, WithMethod(i, "POST"))

\* client.put(url, init)
Put(c, i) ==
    /\ CallerReady
    /\ FirstFrame(c, "put", i, WithMethod(i, "PUT"))

\* client.delete(url, init)
Delete(c, i) ==
    /\ CallerReady
    /\ FirstFrame(c, "delete", i, WithMethod(i, "DELETE"))

\* client.patch(url, init)
Patch(c, i) ==
    /\ CallerReady
    /\ FirstFrame(c, "patch", i, WithMethod(i, "PATCH"))

\* client.on(kind, l): the listener is added after those registered before it;
\* the caller registers its listeners before it makes its calls, each once
On(kind, l) ==
    /\ \A c \in Calls : pc[c] = "idle"
    /\ \A k \in DOMAIN subs[kind] : subs[kind][k] # l
    /\ Registered < MaxRegistrations
    /\ subs' = [subs EXCEPT ![kind] = Append(@, l)]
    /\ UNCHANGED <<config, probe, aborted, pc, attempt, timers, wait, pending, result, events,
                   invocations, outcomes, init, sent, asked, called, delivered>>

\* client.off(kind, l): the listener is taken out, the others keep their order
Off(kind, l) ==
    /\ \E k \in DOMAIN subs[kind] : subs[kind][k] = l
    /\ subs' = [subs EXCEPT ![kind] = SelectSeq(@, LAMBDA x : x # l)]
    /\ UNCHANGED <<config, probe, aborted, pc, attempt, timers, wait, pending, result, events,
                   invocations, outcomes, init, sent, asked, called, delivered>>

\* a caller that awaits each call without a try/catch of its own: a rejected
\* call ends the caller, so the next call is issued after resolved calls only
FetchAfterSuccess(c, i) ==
    /\ \A d \in Calls : d < c => pc[d] = "resolved"
    /\ Fetch(c, i)

\* the transport answers: clear the timer, emit request:end, return a 2xx
\* response or start reading the body of any other
TransportRespond(c, status, body) ==
    LET em == Emission(ResponseEvents(c, attempt[c], status))
    IN /\ pc[c] = "fetching"
       /\ outcomes' = [outcomes EXCEPT ![c] = Append(@, Response(status, body))]
       /\ timers' = ClearTimeout(c, attempt[c])
       /\ IF em.thrown # NoValue
          THEN /\ Catch(c, attempt[c], em.thrown, em.emitted)
               /\ UNCHANGED pending
          ELSE /\ events' = events \o em.emitted
               /\ delivered' = delivered \o em.delivered
               /\ UNCHANGED <<wait, asked>>
               /\ IF ResponseOk(status)
                  THEN /\ pc' = [pc EXCEPT ![c] = "resolved"]
                       /\ result' = [result EXCEPT ![c] = Response(status, body)]
                       /\ UNCHANGED pending
                  ELSE /\ pc' = [pc EXCEPT ![c] = "reading"]
                       /\ pending' = [pending EXCEPT ![c] = Response(status, body)]
                       /\ UNCHANGED result
       /\ UNCHANGED <<config, probe, aborted, attempt, invocations, init, sent, called, subs>>

\* clonedResponse.json() settles: build the HttpError, throw it, catch it
BodyRead(c) ==
    /\ pc[c] = "reading"
    /\ pending' = [pending EXCEPT ![c] = NoValue]
    /\ Catch(c, attempt[c], ThrownForResponse(c, pending[c], attempt[c]), <<>>)
    /\ UNCHANGED <<config, probe, aborted, attempt, timers, invocations, outcomes, init, sent,
                   called, subs>>

\* the transport rejects with an error of its own; the timer is left armed
TransportReject(c, name) ==
    /\ pc[c] = "fetching"
    /\ outcomes' = [outcomes EXCEPT ![c] = Append(@, TransportError(name, attempt[c]))]
    /\ Catch(c, attempt[c], TransportError(name, attempt[c]), <<>>)
    /\ UNCHANGED <<config, probe, aborted, attempt, timers, pending, invocations, init, sent,
                   called, subs>>

\* a timeout timer fires: controller.abort() rejects the fetch of its own attempt
\* if that is still awaited, and does nothing otherwise
TimeoutFire(t) ==
    /\ t \in timers
    /\ timers' = timers \ {t}
    /\ IF /\ pc[t.controller.call] = "fetching"
          /\ Last(sent[t.controller.call]).signal = t.controller
       THEN /\ outcomes' = [outcomes EXCEPT ![t.controller.call] =
                   Append(@, TransportError("AbortError", attempt[t.controller.call]))]
            /\ Catch(t.controller.call, attempt[t.controller.call],
                     TransportError("AbortError", attempt[t.controller.call]), <<>>)
       ELSE UNCHANGED <<pc, wait, result, events, outcomes, asked, delivered>>
    /\ UNCHANGED <<config, probe, aborted, attempt, pending, invocations, init, sent, called, subs>>

\* the caller aborts the signal it holds for call c: the transport rejects the
\* fetch that was given this signal, if one is awaited, with an AbortError;
\* nothing in fetchWithRetry listens to the signal of its init
AbortSignal(c) ==
    /\ aborted[c] = NoValue
    /\ aborted' = [aborted EXCEPT ![c] = [kind |-> "aborted", during |-> pc[c],
                                          attempt |-> attempt[c]]]
    /\ IF pc[c] = "fetching" /\ Last(sent[c]).signal = CallerSignal(c)
       THEN /\ outcomes' = [outcomes EXCEPT ![c] =
                   Append(@, TransportError("AbortError", attempt[c]))]
            /\ Catch(c, attempt[c], TransportError("AbortError", attempt[c]), <<>>)
       ELSE UNCHANGED <<pc, wait, result, events, outcomes, asked, delivered>>
    /\ UNCHANGED <<config, probe, attempt, timers, pending, invocations, init, sent,
                   called, subs>>

\* a backoff promise whose resolve is never called
BackoffNeverResolves(c) ==
    /\ pc[c] = "backoff"
    /\ FALSE
    /\ UNCHANGED vars

\* the backoff timer fires: return this.fetchWithRetry(url, init, attempt + 1)
BackoffFire(c) ==
    /\ pc[c] = "backoff"
    /\ BeginAttempt(c, NextAttempt(attempt[c]), init[c])
    /\ UNCHANGED <<config, probe, aborted, pending, outcomes, called, subs>>

\* a retry configuration whose unsupplied options are left empty instead of
\* taking their defaults
RetryConfigNoDefaults(retry) ==
    retry @@ [maxRetries |-> 0, initialDelay |-> 0, maxDelay |-> 0,
              jitter |-> [num |-> 0, den |-> 1], retryableStatuses |-> {},
              shouldRetry |-> "default"]

\* { ...DEFAULT_CONFIG, ...config.retry }
RetryConfig(retry) == retry @@ DEFAULT_CONFIG

\* new HttpClient(cfg): this.config = cfg, with the keys cfg was given, and
\* this.retryConfig, in one record
HttpClient(cfg) == cfg @@ RetryConfig(cfg.retry)

\* the state of a client and of the calls not yet made on it
Constructed ==
    /\ pc = [c \in Calls |-> "idle"]
    /\ attempt = [c \in Calls |-> 0]
    /\ timers = {}
    /\ wait = [c \in Calls |-> 0]
    /\ pending = [c \in Calls |-> NoValue]
    /\ result = [c \in Calls |-> NoValue]
    /\ events = <<>>
    /\ invocations = [c \in Calls |-> 0]
    /\ outcomes = [c \in Calls |-> <<>>]
    /\ init = [c \in Calls |-> NoValue]
    /\ sent = [c \in Calls |-> <<>>]
    /\ asked = [c \in Calls |-> <<>>]
    /\ called = [c \in Calls |-> NoValue]
    /\ subs = [kind \in EventKinds |-> <<>>]
    /\ delivered = <<>>
    /\ aborted = [c \in Calls |-> NoValue]

\* createHttpClient(config) with maxRetries, retryableStatuses and shouldRetry
\* supplied
Init ==
    /\ config \in {HttpClient([timeout |-> t, headers |-> ClientHeaders,
                                retry |-> [maxRetries |-> m,
                                           retryableStatuses |-> rs,
                                           shouldRetry |-> sr]]) :
                     m \in 0..MaxMaxRetries, rs \in RetryableChoices,
                     sr \in ShouldRetryKinds, t \in Timeouts}
    /\ Constructed
    /\ probe = NoValue

Next ==
    \/ \E c \in 1..NumCalls, i \in CallInits : Fetch(c, i)
    \/ \E c \in Calls, s \in Statuses, b \in Bodies : TransportRespond(c, s, b)
    \/ \E c \in Calls : BodyRead(c)
    \/ \E c \in Calls, e \in TransportErrors : TransportReject(c, e)
    \/ \E t \in timers : TimeoutFire(t)
    \/ \E c \in Calls : BackoffFire(c)

Spec == Init /\ [][Next]_vars

\* the transport settles every invocation that is not aborted first, the body
\* read of a response settles, and every backoff timer fires
TransportSettles(c) ==
    \/ \E s \in Statuses, b \in Bodies : TransportRespond(c, s, b)
    \/ \E e \in TransportErrors : TransportReject(c, e)

\* the steps of the client when the caller awaits NumSeqCalls calls in a row
SeqNext ==
    \/ \E c \in 1..NumSeqCalls, i \in CallInits : FetchAfterSuccess(c, i)
    \/ \E c \in Calls, s \in Statuses, b \in Bodies : TransportRespond(c, s, b)
    \/ \E c \in Calls : BodyRead(c)
    \/ \E c \in Calls, e \in TransportErrors : TransportReject(c, e)
    \/ \E t \in timers : TimeoutFire(t)
    \/ \E c \in Calls : BackoffFire(c)

SeqSpec == Init /\ [][SeqNext]_vars

FairSpec ==
    /\ Spec
    /\ \A c \in Calls : /\ WF_vars(TransportSettles(c))
                        /\ WF_vars(BodyRead(c))
                        /\ WF_vars(BackoffFire(c))

(***************************************************************************)
(* The backoff computation alone: a client with any of the delay options,  *)
(* and the wait computed after a failed attempt of any number.             *)
(***************************************************************************)
DelayInit ==
    /\ config \in {HttpClient([timeout |-> 0, headers |-> NoHeaders,
                                retry |-> [initialDelay |-> d, maxDelay |-> m,
                                           jitter |-> j]]) :
                     d \in InitialDelays, m \in MaxDelays, j \in Jitters}
    /\ Constructed
    /\ probe = NoValue

\* delay and jitterDelay computed in the catch block of attempt n, with the
\* draw r of Math.random(), and the call put to sleep on it
ComputeBackoff(c, n, r) ==
    /\ attempt' = [attempt EXCEPT ![c] = n]
    /\ wait' = [wait EXCEPT ![c] = JitterDelay(Delay(n), r)]
    /\ pc' = [pc EXCEPT ![c] = "backoff"]
    /\ UNCHANGED <<config, probe, aborted, timers, pending, result, events, invocations,
                   outcomes, init, sent, asked, called, subs, delivered>>

DelayNext ==
    \E n \in 1..MaxBackoffAttempt, r \in 0..(RandomScale - 1) :
        ComputeBackoff(1, n, r)

DelaySpec == DelayInit /\ [][DelayNext]_vars

(***************************************************************************)
(* A caller that does not await: NumConcCalls calls in flight at once on   *)
(* one client.                                                             *)
(***************************************************************************)
ConcInit ==
    /\ config \in {HttpClient([timeout |-> t, headers |-> ClientHeaders,
                                retry |-> [maxRetries |-> m, shouldRetry |-> sr]]) :
                     m \in 0..MaxConcRetries, sr \in ShouldRetryKinds,
                     t \in Timeouts}
    /\ Constructed
    /\ probe = NoValue

\* client.fetch(url, init) called while earlier calls are still in flight
FetchConcurrently(c, i) == FirstFrame(c, "fetch", i, i)

ConcNext ==
    \/ \E c \in 1..NumConcCalls, i \in CallInits : FetchConcurrently(c, i)
    \/ \E c \in Calls, s \in Statuses, b \in Bodies : TransportRespond(c, s, b)
    \/ \E c \in Calls : BodyRead(c)
    \/ \E c \in Calls, e \in TransportErrors : TransportReject(c, e)
    \/ \E t \in timers : TimeoutFire(t)
    \/ \E c \in Calls : BackoffFire(c)

ConcSpec == ConcInit /\ [][ConcNext]_vars

(***************************************************************************)
(* One call on a client built from any of the configurations a caller may  *)
(* pass, with any of the per-call request options.                         *)
(***************************************************************************)
OptionsInit ==
    /\ config \in {HttpClient([timeout |-> t, headers |-> h, retry |-> u]) :
                     t \in Timeouts, h \in ClientHeaderChoices,
                     u \in UserRetryChoices}
    /\ Constructed
    /\ probe = NoValue

OptionsNext ==
    \/ \E i \in OptionInits : Fetch(1, i)
    \/ \E c \in Calls, s \in Statuses, b \in Bodies : TransportRespond(c, s, b)
    \/ \E c \in Calls : BodyRead(c)
    \/ \E c \in Calls, e \in TransportErrors : TransportReject(c, e)
    \/ \E t \in timers : TimeoutFire(t)
    \/ \E c \in Calls : BackoffFire(c)

OptionsSpec == OptionsInit /\ [][OptionsNext]_vars

(***************************************************************************)
(* One call made by fetch or by one of the method shorthands, with any of  *)
(* the request options, on a client that retries once.                     *)
(***************************************************************************)
\* the options given to a shorthand: with or without a method of their own (the
\* type leaves it out, a caller can still pass one), a body and headers
MethodInits ==
    {[EmptyInit EXCEPT !.method = m, !.body = b, !.headers = h] :
        m \in {"none", "OPTIONS"}, b \in {"none", "payload"},
        h \in {NoHeaders, [k \in {"accept"} |-> "call"]}}

MethodInit ==
    /\ config \in {HttpClient([timeout |-> t, headers |-> ClientHeaders,
                                retry |-> [maxRetries |-> 1]]) : t \in Timeouts}
    /\ Constructed
    /\ probe = NoValue

MethodNext ==
    \/ \E i \in MethodInits : Fetch(1, i)
    \/ \E i \in MethodInits : Get(1, i)
    \/ \E i \in MethodInits : Post(1, i)
    \/ \E i \in MethodInits : Put(1, i)
    \/ \E i \in MethodInits : Delete(1, i)
    \/ \E i \in MethodInits : Patch(1, i)
    \/ \E c \in Calls, s \in Statuses, b \in Bodies : TransportRespond(c, s, b)
    \/ \E c \in Calls : BodyRead(c)
    \/ \E c \in Calls, e \in TransportErrors : TransportReject(c, e)
    \/ \E t \in timers : TimeoutFire(t)
    \/ \E c \in Calls : BackoffFire(c)

MethodSpec == MethodInit /\ [][MethodNext]_vars

(***************************************************************************)
(* One call on a client whose caller registers and removes listeners, some *)
(* of which throw, before and while the call runs.                         *)
(***************************************************************************)
SubInit ==
    /\ config \in {HttpClient([timeout |-> t, headers |-> ClientHeaders,
                                retry |-> [maxRetries |-> 1]]) : t \in Timeouts}
    /\ Constructed
    /\ probe = NoValue

SubNext ==
    \/ \E kind \in EventKinds, l \in Listeners : On(kind, l)
    \/ \E kind \in EventKinds, l \in Listeners : Off(kind, l)
    \/ \E i \in CallInits : Fetch(1, i)
    \/ \E c \in Calls, s \in Statuses, b \in Bodies : TransportRespond(c, s, b)
    \/ \E c \in Calls : BodyRead(c)
    \/ \E c \in Calls, e \in TransportErrors : TransportReject(c, e)
    \/ \E t \in timers : TimeoutFire(t)
    \/ \E c \in Calls : BackoffFire(c)

SubSpec == SubInit /\ [][SubNext]_vars

(***************************************************************************)
(* HttpError alone: an error built with any status and any response body,  *)
(* and the methods a caller asks it with.  A text is the sequence of its   *)
(* characters.                                                             *)
(***************************************************************************)
\* JSON values a response body parses to, and the body that was never given
Undefined == [type |-> "undefined"]
JsonNull == [type |-> "null"]
JsonBoolean(b) == [type |-> "boolean", bool |-> b]
JsonNumber(n) == [type |-> "number", num |-> n]
JsonString(chars) == [type |-> "string", chars |-> chars]
JsonObject(members) == [type |-> "object", members |-> members]

DigitChars == <<"0", "1", "2", "3", "4", "5", "6", "7", "8", "9">>

\* the decimal digits of a natural number
RECURSIVE Digits(_)
Digits(n) ==
    IF n < 10 THEN <<DigitChars[n + 1]>>
    ELSE Digits(n \div 10) \o <<DigitChars[(n % 10) + 1]>>

Quoted(chars) == <<"\"">> \o chars \o <<"\"">>

\* JSON.stringify(value), for values without characters that need escaping
RECURSIVE Stringify(_)
RECURSIVE StringifyMembers(_)
StringifyMembers(members) ==
    IF members = <<>> THEN <<>>
    ELSE Quoted(Head(members).key) \o <<":">> \o Stringify(Head(members).value)
             \o (IF Len(members) > 1 THEN <<",">> ELSE <<>>)
             \o StringifyMembers(Tail(members))

Stringify(value) ==
    CASE value.type = "null" -> <<"n", "u", "l", "l">>
      [] value.type = "boolean" ->
             IF value.bool THEN <<"t", "r", "u", "e">>
                           ELSE <<"f", "a", "l", "s", "e">>
      [] value.type = "number" -> Digits(value.num)
      [] value.type = "string" -> Quoted(value.chars)
      [] value.type = "object" ->
             <<"{">> \o StringifyMembers(value.members) \o <<"}">>

\* !value: undefined, null, false, 0 and "" are falsy
Falsy(value) ==
    \/ value.type \in {"undefined", "null"}
    \/ value.type = "boolean" /\ ~value.bool
    \/ value.type = "number" /\ value.num = 0
    \/ value.type = "string" /\ value.chars = <<>>

\* String.prototype.includes
Includes(str, text) ==
    \E k \in 0..(Len(str) - Len(text)) : SubSeq(str, k + 1, k + Len(text)) = text

\* hasStatusInRange with the upper end excluded
HasStatusInRangeBelowMax(error, min, max) ==
    error.status >= min /\ error.status < max

\* error.hasStatusInRange(min, max)
HasStatusInRange(error, min, max) == error.status >= min /\ error.status <= max

\* error.hasStatus(status)
HasStatus(error, status) == error.status = status

\* error.isClientError()
IsClientError(error) == HasStatusInRange(error, 400, 499)

\* error.isServerError()
IsServerError(error) == HasStatusInRange(error, 500, 599)

\* error.responseContains(text)
ResponseContainsText(error, text) ==
    IF Falsy(error.responseBody) THEN FALSE
    ELSE Includes(Stringify(error.responseBody), text)

ErrorStatuses == {399, 400, 404, 499, 500, 503, 599, 600}
RangeEnds == {400, 404, 499, 500}

\* response bodies: none, the falsy JSON values, and objects as of errors.test.ts
ErrorBodies ==
    {Undefined, JsonNull, JsonBoolean(FALSE), JsonBoolean(TRUE), JsonNumber(0),
     JsonNumber(30), JsonString(<<>>), JsonString(<<"r", "a">>),
     JsonObject(<<>>),
     JsonObject(<<[key |-> <<"e">>, value |-> JsonString(<<"r", "a">>)],
                  [key |-> <<"r", "a">>, value |-> JsonNumber(30)]>>)}

Texts ==
    {<<>>, <<"0">>, <<"3", "0">>, <<"r", "a">>, <<"a", "r">>, <<"e">>, <<"\"">>,
     <<"f", "a", "l", "s", "e">>, <<"n", "u", "l", "l">>, <<"{", "}">>,
     <<"\"", ":", "\"">>}

\* new HttpError(message, status, url, responseBody), held by a caller
ErrorInit ==
    /\ config = HttpClient([timeout |-> 0, headers |-> NoHeaders, retry |-> NoRetry])
    /\ Constructed
    /\ probe \in {[error |-> HttpError(s, 1, b, 0), method |-> "none",
                   args |-> <<>>, value |-> FALSE] :
                     s \in ErrorStatuses, b \in ErrorBodies}

\* the caller calls a method of the error; the error keeps its fields
Asked(method, args, value) ==
    /\ probe' = [error |-> probe.error, method |-> method, args |-> args,
                 value |-> value]
    /\ UNCHANGED <<config, aborted, pc, attempt, timers, wait, pending, result, events,
                   invocations, outcomes, init, sent, asked, called, subs,
                   delivered>>

CallHasStatus(status) ==
    Asked("hasStatus", <<status>>, HasStatus(probe.error, status))

CallHasStatusInRange(min, max) ==
    Asked("hasStatusInRange", <<min, max>>, HasStatusInRange(probe.error, min, max))

CallIsClientError == Asked("isClientError", <<>>, IsClientError(probe.error))

CallIsServerError == Asked("isServerError", <<>>, IsServerError(probe.error))

CallResponseContains(text) ==
    Asked("responseContains", <<text>>, ResponseContainsText(probe.error, text))

ErrorNext ==
    \/ \E status \in ErrorStatuses : CallHasStatus(status)
    \/ \E min \in RangeEnds, max \in RangeEnds : CallHasStatusInRange(min, max)
    \/ CallIsClientError
    \/ CallIsServerError
    \/ \E text \in Texts : CallResponseContains(text)

ErrorSpec == ErrorInit /\ [][ErrorNext]_vars

(***************************************************************************)
(* One call on a client built without a timeout, with a timeout of 0, or   *)
(* with a timeout above 0.                                                 *)
(***************************************************************************)
TimeoutConfigs ==
    {[headers |-> ClientHeaders, retry |-> [maxRetries |-> m]] :
        m \in 0..MaxMaxRetries}
    \cup {[timeout |-> t, headers |-> ClientHeaders, retry |-> [maxRetries |-> m]] :
              t \in Timeouts, m \in 0..MaxMaxRetries}

TimeoutInit ==
    /\ config \in {HttpClient(cfg) : cfg \in TimeoutConfigs}
    /\ Constructed
    /\ probe = NoValue

TimeoutNext ==
    \/ \E i \in CallInits : Fetch(1, i)
    \/ \E c \in Calls, s \in Statuses, b \in Bodies : TransportRespond(c, s, b)
    \/ \E c \in Calls : BodyRead(c)
    \/ \E c \in Calls, e \in TransportErrors : TransportReject(c, e)
    \/ \E t \in timers : TimeoutFire(t)
    \/ \E c \in Calls : BackoffFire(c)

TimeoutSpec == TimeoutInit /\ [][TimeoutNext]_vars

(***************************************************************************)
(* One call whose caller holds an AbortController, passes its signal in    *)
(* the request options or not, and aborts it at any time.                  *)
(***************************************************************************)
SignalInits ==
    {[EmptyInit EXCEPT !.signal = s] : s \in {NoValue, CallerSignal(1)}}

SignalInit ==
    /\ config \in {HttpClient([timeout |-> t, headers |-> ClientHeaders,
                                retry |-> [maxRetries |-> 1]]) : t \in Timeouts}
    /\ Constructed
    /\ probe = NoValue

SignalNext ==
    \/ \E i \in SignalInits : Fetch(1, i)
    \/ AbortSignal(1)
    \/ \E c \in Calls, s \in Statuses, b \in Bodies : TransportRespond(c, s, b)
    \/ \E c \in Calls : BodyRead(c)
    \/ \E c \in Calls, e \in TransportErrors : TransportReject(c, e)
    \/ \E t \in timers : TimeoutFire(t)
    \/ \E c \in Calls : BackoffFire(c)

SignalSpec == SignalInit /\ [][SignalNext]_vars

(***************************************************************************)
(* Reading the event log and the transport's record.                       *)
(***************************************************************************)
Kinds(seq) == [i \in DOMAIN seq |-> seq[i].kind]

\* the events of call c, in emission order
CallEvents(c) == SelectSeq(events, LAMBDA e : e.call = c)

\* the events of attempt n of call c, in emission order
AttemptEvents(c, n) == SelectSeq(events, LAMBDA e : e.call = c /\ e.attempt = n)

\* the transport answered invocation n of call c with a response
Answered(c, n) == n \in 1..Len(outcomes[c]) /\ outcomes[c][n].kind = "response"

\* the HttpError a non-2xx answer to invocation n of call c stands for
FailureOf(c, n) ==
    HttpError(outcomes[c][n].status, UrlOf(c), ParseBody(outcomes[c][n].body), n)

HasEvent(kind, c, n) ==
    \E i \in DOMAIN events :
        events[i].kind = kind /\ events[i].call = c /\ events[i].attempt = n

(***************************************************************************)
(* C1: when every answer of the transport carries a status of              *)
(* retryableStatuses and shouldRetry returns true for each of them, a      *)
(* settled call has invoked the transport exactly maxRetries + 1 times and *)
(* is rejected with an HttpError carrying the status of the last answer;   *)
(* no call invokes the transport more than maxRetries + 1 times.           *)
(***************************************************************************)
AllAnswersRetryable(c) ==
    \A n \in 1..Len(outcomes[c]) :
        /\ Answered(c, n)
        /\ outcomes[c][n].status \in config.retryableStatuses
        /\ ShouldRetry(FailureOf(c, n), n)

C1_RetriedExactlyMaxRetries ==
    \A c \in Calls :
        /\ invocations[c] <= config.maxRetries + 1
        /\ (Settled(c) /\ AllAnswersRetryable(c)) =>
              /\ invocations[c] = config.maxRetries + 1
              /\ Len(outcomes[c]) = config.maxRetries + 1
              /\ pc[c] = "rejected"
              /\ result[c].kind = "error"
              /\ result[c].name = "HttpError"
              /\ result[c].status = Last(outcomes[c]).status

C1_Witness ==
    \E c \in Calls :
        /\ Settled(c) /\ AllAnswersRetryable(c)
        /\ config.maxRetries = 2
        /\ invocations[c] = 3

(***************************************************************************)
(* C2: a failed attempt is followed by request:retry and a new attempt     *)
(* exactly when its number is <= maxRetries, its failure is an HttpError,  *)
(* the status is in retryableStatuses and shouldRetry returns true.        *)
(***************************************************************************)
AllFourHold(error, n) ==
    /\ n <= config.maxRetries
    /\ error.name = "HttpError"
    /\ error.status \in config.retryableStatuses
    /\ ShouldRetry(error, n)

RetryFollows(c, n, error) ==
    /\ \E i \in DOMAIN events : events[i] = RetryEvent(c, n, error)
    /\ \/ pc[c] = "backoff" /\ attempt[c] = n
       \/ HasEvent("start", c, n + 1)

NothingFollows(c, n) ==
    /\ ~HasEvent("retry", c, n)
    /\ ~HasEvent("start", c, n + 1)
    /\ pc[c] = "rejected"
    /\ attempt[c] = n

C2_RetryIffAllFour ==
    \A i \in DOMAIN events :
        events[i].kind = "error" =>
            LET e == events[i]
            IN IF AllFourHold(e.error, e.attempt)
               THEN RetryFollows(e.call, e.attempt, e.error)
               ELSE NothingFollows(e.call, e.attempt)

\* a first attempt that was retried, then a second whose status is in
\* retryableStatuses and whose number is <= maxRetries, refused by shouldRetry
C2_Witness ==
    \E c \in Calls :
        /\ HasEvent("retry", c, 1)
        /\ \E i \in DOMAIN events :
              /\ events[i].kind = "error" /\ events[i].call = c
              /\ events[i].attempt = 2
              /\ events[i].attempt <= config.maxRetries
              /\ events[i].error.name = "HttpError"
              /\ events[i].error.status \in config.retryableStatuses
              /\ ~ShouldRetry(events[i].error, 2)
        /\ pc[c] = "rejected"

(***************************************************************************)
(* C3: an attempt aborted by its timeout timer ends the call: the call is  *)
(* rejected with the abort error, the attempt has emitted request:start    *)
(* and one request:error and nothing else, and the call emits nothing      *)
(* after that request:error.                                               *)
(***************************************************************************)
Aborted(c, n) ==
    /\ n \in 1..Len(outcomes[c])
    /\ outcomes[c][n].kind = "error"
    /\ outcomes[c][n].name = "AbortError"

C3_AbortNeverRetried ==
    \A c \in Calls : \A n \in 1..Len(outcomes[c]) :
        Aborted(c, n) =>
            /\ pc[c] = "rejected"
            /\ result[c] = outcomes[c][n]
            /\ result[c].name = "AbortError"
            /\ ~IsHttpError(result[c])
            /\ AttemptEvents(c, n) = <<StartEvent(c, n, init[c]), ErrorEvent(c, n, outcomes[c][n])>>
            /\ Last(CallEvents(c)) = ErrorEvent(c, n, outcomes[c][n])
            /\ invocations[c] = n

\* an abort of an attempt that every retry setting would have let retry
C3_Witness ==
    \E c \in Calls :
        /\ Aborted(c, 2)
        /\ config.maxRetries = 2
        /\ config.shouldRetry = "default"
        /\ pc[c] = "rejected"

(***************************************************************************)
(* C4: a rejection of the transport that is neither an HttpError nor an    *)
(* abort ends the call: the call is rejected with the error the transport  *)
(* raised, and the attempt has emitted request:start and one request:error *)
(* and nothing else.                                                       *)
(***************************************************************************)
TransportFailed(c, n) ==
    /\ n \in 1..Len(outcomes[c])
    /\ outcomes[c][n].kind = "error"
    /\ outcomes[c][n].name \in TransportErrors

C4_TransportFailureNeverRetried ==
    \A c \in Calls : \A n \in 1..Len(outcomes[c]) :
        TransportFailed(c, n) =>
            /\ pc[c] = "rejected"
            /\ result[c] = outcomes[c][n]
            /\ AttemptEvents(c, n) = <<StartEvent(c, n, init[c]), ErrorEvent(c, n, outcomes[c][n])>>
            /\ Last(CallEvents(c)) = ErrorEvent(c, n, outcomes[c][n])
            /\ invocations[c] = n

C4_Witness ==
    \E c \in Calls :
        /\ TransportFailed(c, 1)
        /\ config.maxRetries = 2
        /\ config.shouldRetry = "default"
        /\ pc[c] = "rejected"

(***************************************************************************)
(* C5: a call rejected after one or more retries is rejected with the      *)
(* failure of its last attempt, never with the failure of an attempt that  *)
(* was retried.                                                            *)
(***************************************************************************)
CallErrors(c) == SelectSeq(events, LAMBDA e : e.call = c /\ e.kind = "error")

C5_RejectsWithLastFailure ==
    \A c \in Calls :
        (pc[c] = "rejected" /\ invocations[c] >= 2) =>
            /\ result[c].id = invocations[c]
            /\ result[c] = Last(CallErrors(c)).error
            /\ result[c] = IF Answered(c, invocations[c])
                           THEN FailureOf(c, invocations[c])
                           ELSE outcomes[c][invocations[c]]
            /\ \A i \in 1..(Len(CallErrors(c)) - 1) :
                   /\ HasEvent("retry", c, CallErrors(c)[i].attempt)
                   /\ CallErrors(c)[i].error # result[c]

\* rejected on the third attempt with a failure that differs from the first one's
C5_Witness ==
    \E c \in Calls :
        /\ pc[c] = "rejected"
        /\ invocations[c] = 3
        /\ Len(CallErrors(c)) = 3
        /\ CallErrors(c)[1].error.status # result[c].status
(***************************************************************************)
(* C6: when the transport settles every invocation and every backoff timer *)
(* fires, every call that was issued settles; it settles once (a settled   *)
(* call keeps its state and its value), resolved with a 2xx response or    *)
(* rejected with an HttpError, an abort error or the transport's error.    *)
(***************************************************************************)
SettledShape(c) ==
    /\ ~Settled(c) => result[c] = NoValue
    /\ pc[c] = "resolved" =>
          /\ result[c].kind = "response"
          /\ result[c].status \in 200..299
          /\ result[c] = Last(outcomes[c])
    /\ pc[c] = "rejected" =>
          /\ result[c].kind = "error"
          /\ result[c].name \in {"HttpError", "AbortError"} \cup TransportErrors

SettlesOnce(c) ==
    Settled(c) => (pc'[c] = pc[c] /\ result'[c] = result[c])

C6_EveryCallSettlesOnce ==
    /\ (\E c \in Calls : InFlight(c)) ~> (\A c \in Calls : ~InFlight(c))
    /\ [](\A c \in Calls : SettledShape(c))
    /\ [][\A c \in Calls : SettlesOnce(c)]_vars

\* a call that settled only after its last allowed retry
C6_Witness ==
    \E c \in Calls :
        /\ Settled(c)
        /\ config.maxRetries = 2
        /\ invocations[c] = 3
        /\ result[c].kind = "error"

(***************************************************************************)
(* C7: a call whose first attempt is answered with a 2xx status emits      *)
(* request:start then request:end and nothing else, and is resolved.       *)
(***************************************************************************)
FirstAnswerOk(c) ==
    Answered(c, 1) /\ outcomes[c][1].status \in 200..299

C7_SuccessEmitsStartEnd ==
    \A c \in Calls :
        FirstAnswerOk(c) =>
            /\ CallEvents(c) = <<StartEvent(c, 1, init[c]), EndEvent(c, 1, outcomes[c][1].status)>>
            /\ pc[c] = "resolved"

C7_Witness ==
    \E c \in Calls : FirstAnswerOk(c) /\ config.maxRetries = 2 /\ Settled(c)

(***************************************************************************)
(* C8: an attempt answered with a non-2xx status and retried has emitted   *)
(* start, end, error, retry in that order and next to one another, and the *)
(* next attempt's start comes right after that retry; a successful call    *)
(* followed by a call retried once and then successful leaves              *)
(* start, end, start, end, error, retry, start, end in the log.            *)
(***************************************************************************)
\* attempt n of call c was answered with a non-2xx status and the call went on
\* to a backoff wait and, after it, to attempt n + 1
Retried(c, n) ==
    /\ Answered(c, n)
    /\ outcomes[c][n].status \notin 200..299
    /\ \/ invocations[c] > n
       \/ pc[c] = "backoff" /\ attempt[c] = n

\* the kinds of the four events of a retried attempt, in the order claimed
RetriedKinds == <<"start", "end", "error", "retry">>

\* in log, the log of call c: attempts 1..n-1 were retried and took four events
\* each, so attempt n starts at 4n-3; its four events sit there, and the start
\* of attempt n+1, once made, is the very next event
RetriedAttemptInOrder(log, c, n) ==
    /\ Len(log) >= 4 * n
    /\ \A k \in 1..4 :
           /\ log[4 * n - 4 + k].kind = RetriedKinds[k]
           /\ log[4 * n - 4 + k].attempt = n
    /\ log[4 * n - 2].status = outcomes[c][n].status
    /\ log[4 * n - 1].error = log[4 * n].error
    /\ invocations[c] > n =>
          /\ Len(log) > 4 * n
          /\ log[4 * n + 1].kind = "start"
          /\ log[4 * n + 1].attempt = n + 1
    /\ invocations[c] = n => Len(log) = 4 * n

SuccessThenRetriedOnce(c, d) ==
    /\ outcomes[c] # <<>> /\ Len(outcomes[c]) = 1 /\ FirstAnswerOk(c)
    /\ Len(outcomes[d]) = 2
    /\ Answered(d, 1) /\ Retried(d, 1)
    /\ Answered(d, 2) /\ outcomes[d][2].status \in 200..299

\* in log, what follows the four events of each of r retried attempts belongs
\* to a later attempt
LaterEventsAfter(log, r) == \A j \in (4 * r + 1)..Len(log) : log[j].attempt > r

\* every retried attempt of call c is in order in log, the log of call c, and
\* what follows the retried attempts belongs to a later attempt: no event of a
\* retried attempt lies outside its four places
RetriedAttemptsInOrder(log, c) ==
    /\ \A n \in 1..invocations[c] :
           Retried(c, n) => RetriedAttemptInOrder(log, c, n)
    /\ LaterEventsAfter(log, Cardinality({n \in 1..invocations[c] : Retried(c, n)}))

EventsOfCalls(S) == SelectSeq(events, LAMBDA e : e.call \in S)

C8_RetriedAttemptOrder ==
    /\ \A c \in Calls : RetriedAttemptsInOrder(CallEvents(c), c)
    /\ \A c \in Calls : \A n \in 2..invocations[c] : Retried(c, n - 1)
    /\ \A c \in Calls : \A d \in Calls :
           (d = c + 1 /\ SuccessThenRetriedOnce(c, d)) =>
               Kinds(EventsOfCalls({c, d})) =
                   <<"start", "end", "start", "end", "error", "retry", "start", "end">>

C8_Witness ==
    /\ SuccessThenRetriedOnce(1, 2)
    /\ Len(events) = 8

(***************************************************************************)
(* C9: a call whose first attempt fails with a retried status and whose    *)
(* second attempt is answered with a 2xx status emits start, end, error,   *)
(* retry, start, end.                                                      *)
(***************************************************************************)
RetriedOnceThenOk(c) ==
    /\ Len(outcomes[c]) = 2
    /\ Answered(c, 1) /\ Retried(c, 1)
    /\ Answered(c, 2) /\ outcomes[c][2].status \in 200..299

\* the claim as stated: the call emits eight events
C9_Original ==
    \A c \in Calls :
        RetriedOnceThenOk(c) =>
            Kinds(CallEvents(c)) =
                <<"start", "end", "start", "end", "error", "retry", "start", "end">>

C9_OneRetryThenSuccess ==
    \A c \in Calls :
        RetriedOnceThenOk(c) =>
            /\ Kinds(CallEvents(c)) = <<"start", "end", "error", "retry", "start", "end">>
            /\ pc[c] = "resolved"

C9_Witness ==
    \E c \in Calls : RetriedOnceThenOk(c) /\ pc[c] = "resolved"

(***************************************************************************)
(* C10: an attempt the transport answered, with whatever status, has       *)
(* emitted exactly one request:end, carrying that status and placed before *)
(* the attempt's request:error; an attempt whose transport call rejected   *)
(* or was aborted has emitted none.                                        *)
(***************************************************************************)
EndsOf(c, n) == SelectSeq(AttemptEvents(c, n), LAMBDA e : e.kind = "end")

C10_EndOncePerAnsweredAttempt ==
    \A c \in Calls : \A n \in 1..Len(outcomes[c]) :
        LET log == AttemptEvents(c, n)
        IN IF Answered(c, n)
           THEN /\ EndsOf(c, n) = <<EndEvent(c, n, outcomes[c][n].status)>>
                /\ log[2] = EndEvent(c, n, outcomes[c][n].status)
                /\ \A i \in DOMAIN log : log[i].kind = "error" => i > 2
           ELSE /\ EndsOf(c, n) = <<>>
                /\ HasEvent("error", c, n)

\* a non-2xx answer with its end before its error, and a rejected attempt without end
C10_Witness ==
    /\ \E c \in Calls : \E n \in 1..Len(outcomes[c]) :
           /\ Answered(c, n) /\ outcomes[c][n].status = 503
           /\ HasEvent("error", c, n)
    /\ \E c \in Calls : \E n \in 1..Len(outcomes[c]) : ~Answered(c, n)

StartsUpTo(c, i) ==
    Cardinality({j \in 1..i : events[j].kind = "start" /\ events[j].call = c})

AllAnswersOfRetryableStatus(c) ==
    \A n \in 1..Len(outcomes[c]) :
        Answered(c, n) /\ outcomes[c][n].status \in config.retryableStatuses

C12_AttemptNumberOfFailedAttempt ==
    /\ \A i \in DOMAIN events :
           events[i].kind \in {"error", "retry"} =>
               LET e == events[i]
               IN /\ e.attempt = StartsUpTo(e.call, i)
                  /\ e.attempt >= 1
                  /\ e.attempt <= Len(outcomes[e.call])
                  /\ Answered(e.call, e.attempt) =>
                         e.error = FailureOf(e.call, e.attempt)
    /\ \A c \in Calls : \A k \in DOMAIN asked[c] :
           /\ asked[c][k].attempt = k
           /\ Answered(c, k) /\ asked[c][k].error = FailureOf(c, k)
    /\ \A c \in Calls :
           (/\ config.shouldRetry = "firstAttempt" /\ config.maxRetries >= 2
            /\ Settled(c) /\ AllAnswersOfRetryableStatus(c)) =>
               /\ invocations[c] = 2
               /\ HasEvent("retry", c, 1) /\ ~HasEvent("retry", c, 2)

\* attempt === 1 with maxRetries 2 and two 503 answers: rejected after two invocations
C12_Witness ==
    \E c \in Calls :
        /\ config.shouldRetry = "firstAttempt" /\ config.maxRetries = 2
        /\ pc[c] = "rejected" /\ AllAnswersOfRetryableStatus(c)
        /\ Len(asked[c]) = 2 /\ asked[c][2].attempt = 2
        /\ outcomes[c][1].status = 503

(***************************************************************************)
(* C13: a request:retry of attempt n of a call leads to the request:start  *)
(* of attempt n + 1 of that call, with the url and the request options of  *)
(* attempt n; while the call waits for its backoff the transport has been  *)
(* invoked n times for it, and the start of attempt n + 1 comes with the   *)
(* invocation n + 1.                                                       *)
(***************************************************************************)
\* the last event of call c is a request:retry
AwaitingRetry(c) ==
    LET log == CallEvents(c)
    IN log # <<>> /\ Last(log).kind = "retry"

\* in the log of call c, the event after a request:retry of attempt n is the
\* request:start of attempt n + 1 with the url and options of attempt n's start
NextStartAfterRetry(c) ==
    LET log == CallEvents(c)
    IN \A k \in 1..(Len(log) - 1) :
           log[k].kind = "retry" =>
               /\ log[k + 1].kind = "start"
               /\ log[k + 1].attempt = log[k].attempt + 1
               /\ \E j \in 1..(k - 1) :
                      /\ log[j].kind = "start" /\ log[j].attempt = log[k].attempt
                      /\ log[k + 1].url = log[j].url
                      /\ log[k + 1].init = log[j].init

\* the transport is invoked once per request:start, and while the call waits
\* after the request:retry of attempt n it has been invoked n times
InvokedOncePerStart(c) ==
    LET log == CallEvents(c)
    IN /\ Len(sent[c]) = Len(SelectSeq(log, LAMBDA e : e.kind = "start"))
       /\ invocations[c] = Len(sent[c])
       /\ AwaitingRetry(c) =>
              /\ pc[c] = "backoff"
              /\ Len(sent[c]) = Last(log).attempt

C13_RetryLeadsToNextStart ==
    /\ \A c \in Calls : AwaitingRetry(c) ~> ~AwaitingRetry(c)
    /\ [](\A c \in Calls : NextStartAfterRetry(c) /\ InvokedOncePerStart(c))

\* the second retry of a call has been followed by the start of attempt 3
C13_Witness ==
    \E c \in Calls :
        /\ HasEvent("retry", c, 2)
        /\ HasEvent("start", c, 3)
        /\ ~AwaitingRetry(c)
        /\ init[c] # EmptyInit

(***************************************************************************)
(* C14: every failed attempt of a call (non-2xx answer, transport          *)
(* rejection, abort) has emitted exactly one request:error, carrying the   *)
(* url, the failure of that attempt and its number; the request:error      *)
(* events of a call are as many as its failed attempts, also when earlier  *)
(* attempts were retried and a later failure is what the caller receives.  *)
(***************************************************************************)
\* invocation n of call c has failed: rejected or aborted, or answered with a
\* non-2xx status whose body has been read
Failed(c, n) ==
    /\ n \in 1..Len(outcomes[c])
    /\ \/ ~Answered(c, n)
       \/ /\ outcomes[c][n].status \notin 200..299
          /\ ~(pc[c] = "reading" /\ attempt[c] = n)

\* the error attempt n of call c failed with
FailureAt(c, n) == IF Answered(c, n) THEN FailureOf(c, n) ELSE outcomes[c][n]

C14_ErrorOncePerFailedAttempt ==
    \A c \in Calls :
        LET errs == CallErrors(c)
            failed == {n \in 1..Len(outcomes[c]) : Failed(c, n)}
        IN /\ Len(errs) = Cardinality(failed)
           /\ \A n \in failed :
                  /\ Cardinality({k \in DOMAIN errs : errs[k].attempt = n}) = 1
                  /\ \E k \in DOMAIN errs :
                         /\ errs[k] = ErrorEvent(c, n, FailureAt(c, n))
                         /\ errs[k].url = UrlOf(c)
           /\ pc[c] = "rejected" =>
                  Cardinality({k \in DOMAIN errs : errs[k].error = result[c]}) = 1

\* a call rejected at its third attempt, after a rejected-by-status first attempt
\* and second attempt were retried: three failed attempts, three request:error
C14_Witness ==
    \E c \in Calls :
        /\ pc[c] = "rejected" /\ invocations[c] = 3
        /\ Len(CallErrors(c)) = 3
        /\ ~Answered(c, 3)

(***************************************************************************)
(* C15: the wait computed after failed attempt n lies between              *)
(* base * (1 - jitter) and base * (1 + jitter), where base is the smaller  *)
(* of initialDelay * 2^(n-1) and maxDelay; with jitter 0 it is base, and   *)
(* after attempt 1 base is the smaller of initialDelay and maxDelay.       *)
(***************************************************************************)
\* min(initialDelay * 2^(n-1), maxDelay)
Base(n) ==
    IF config.initialDelay * 2^(n - 1) <= config.maxDelay
    THEN config.initialDelay * 2^(n - 1)
    ELSE config.maxDelay

\* wait[c] is a numerator over RandomScale * jitter.den; so are these bounds
LowestWait(n) == Base(n) * RandomScale * (config.jitter.den - config.jitter.num)
HighestWait(n) == Base(n) * RandomScale * (config.jitter.den + config.jitter.num)

C15_WaitWithinJitterWindow ==
    \A c \in Calls :
        pc[c] = "backoff" =>
            /\ LowestWait(attempt[c]) <= wait[c]
            /\ wait[c] <= HighestWait(attempt[c])
            /\ config.jitter.num = 0 =>
                   wait[c] = Base(attempt[c]) * RandomScale * config.jitter.den
            /\ attempt[c] = 1 =>
                   Base(attempt[c]) = Min(config.initialDelay, config.maxDelay)

\* a wait above base and below its upper bound, on a delay capped by maxDelay
C15_Witness ==
    \E c \in Calls :
        /\ pc[c] = "backoff" /\ attempt[c] >= 2
        /\ config.jitter.num > 0 /\ config.jitter.num < config.jitter.den
        /\ Base(attempt[c]) = config.maxDelay
        /\ wait[c] > Base(attempt[c]) * RandomScale * config.jitter.den
        /\ wait[c] < HighestWait(attempt[c])

(***************************************************************************)
(* C16: the wait between a failed attempt and its retry never exceeds      *)
(* retry.maxDelay.                                                         *)
(***************************************************************************)
C16_WaitAtMostMaxDelay ==
    \A c \in Calls :
        pc[c] = "backoff" =>
            wait[c] <= config.maxDelay * RandomScale * config.jitter.den

(***************************************************************************)
(* C17: an attempt answered with a status outside 200..299 fails with an   *)
(* HttpError carrying that status, the url of the call and the parsed      *)
(* body, or an empty object when the body is not JSON; no other error      *)
(* reaches a subscriber or the caller for it, and it is retried exactly    *)
(* when its number is <= maxRetries, the status is retryable and           *)
(* shouldRetry accepts that HttpError.                                     *)
(***************************************************************************)
\* the HttpError expected for a non-2xx answer to invocation n of call c
ExpectedHttpError(c, n) ==
    [kind |-> "error", name |-> "HttpError",
     status |-> outcomes[c][n].status, url |-> UrlOf(c),
     responseBody |-> IF outcomes[c][n].body = "notjson"
                      THEN "emptyObject" ELSE outcomes[c][n].body,
     id |-> n]

C17_NonOkAnswerFailsWithHttpError ==
    \A c \in Calls : \A n \in 1..Len(outcomes[c]) :
        (Answered(c, n) /\ Failed(c, n)) =>
            LET err == ExpectedHttpError(c, n)
            IN /\ \A i \in DOMAIN events :
                      (/\ events[i].call = c /\ events[i].attempt = n
                       /\ events[i].kind \in {"error", "retry"}) =>
                          events[i].error = err
               /\ HasEvent("error", c, n)
               /\ Retried(c, n) <=>
                      /\ n <= config.maxRetries
                      /\ err.status \in config.retryableStatuses
                      /\ ShouldRetry(err, n)
               /\ ~Retried(c, n) => pc[c] = "rejected" /\ result[c] = err

\* a 503 with a body that is not JSON was retried, and a second one rejected the
\* call with an HttpError carrying the empty object
C17_Witness ==
    \E c \in Calls :
        /\ Len(outcomes[c]) = 2 /\ Answered(c, 1) /\ Answered(c, 2)
        /\ outcomes[c][1].body = "notjson" /\ outcomes[c][2].body = "notjson"
        /\ outcomes[c][1].status = 503
        /\ Retried(c, 1)
        /\ pc[c] = "rejected"
        /\ result[c].name = "HttpError" /\ result[c].responseBody = "emptyObject"

(***************************************************************************)
(* C18: with several calls in flight at once on one client, each call's    *)
(* attempt counter follows its own transport invocations, each failed      *)
(* attempt is retried or rejected by the retry test on its own failure,    *)
(* an attempt is aborted only by the timer armed for that very attempt,    *)
(* and no step of one call changes anything of another call.               *)
(***************************************************************************)
OwnCounters(c) ==
    pc[c] # "idle" =>
        /\ attempt[c] = invocations[c]
        /\ Len(sent[c]) = attempt[c]
        /\ Len(outcomes[c]) \in {attempt[c] - 1, attempt[c]}
        /\ \A k \in DOMAIN sent[c] : sent[c][k].signal = Controller(c, k)

OwnRetryDecisions(c) ==
    \A n \in 1..Len(outcomes[c]) :
        Failed(c, n) =>
            LET err == FailureAt(c, n)
            IN IF /\ n <= config.maxRetries
                  /\ err.name = "HttpError"
                  /\ err.status \in config.retryableStatuses
                  /\ ShouldRetry(err, n)
               THEN invocations[c] > n \/ (pc[c] = "backoff" /\ attempt[c] = n)
               ELSE /\ invocations[c] = n
                    /\ pc[c] = "rejected" /\ result[c] = err

\* the part of the state that belongs to call c
StateOfCall(c) ==
    <<pc[c], attempt[c], wait[c], pending[c], result[c], invocations[c],
      outcomes[c], init[c], sent[c], asked[c], called[c]>>

\* this step aborts the attempt call c is awaiting
AbortedInStep(c) ==
    /\ Len(outcomes'[c]) = Len(outcomes[c]) + 1
    /\ Last(outcomes'[c]).kind = "error"
    /\ Last(outcomes'[c]).name = "AbortError"

StepsOfCallsApart ==
    /\ \A c \in Calls :
           AbortedInStep(c) =>
               /\ Timer(c, attempt[c]) \in timers
               /\ Timer(c, attempt[c]) \notin timers'
               /\ Last(outcomes'[c]).id = attempt[c]
    /\ \A c \in Calls : \A d \in Calls :
           (c # d /\ StateOfCall(c)' # StateOfCall(c)) =>
               StateOfCall(d)' = StateOfCall(d)

C18_CallsAreIndependent ==
    /\ [](\A c \in Calls : OwnCounters(c) /\ OwnRetryDecisions(c))
    /\ [][StepsOfCallsApart]_vars

\* call 2 was retried and then aborted at its second attempt while call 1 still
\* awaits the transport in its first attempt, its own timer pending
C18_Witness ==
    /\ NumConcCalls >= 2
    /\ pc[1] = "fetching" /\ attempt[1] = 1 /\ Timer(1, 1) \in timers
    /\ pc[2] = "rejected" /\ attempt[2] = 2
    /\ result[2].name = "AbortError"

(***************************************************************************)
(* C19: every retry option the caller did not supply has its default       *)
(* (maxRetries 3, initialDelay 100, maxDelay 1000, jitter 0.1,             *)
(* retryableStatuses 408, 429, 500, 502, 503, 504, shouldRetry always      *)
(* true) and every supplied one its supplied value; a client without retry *)
(* configuration retries a 503 up to three times within 10% of             *)
(* min(100 * 2^(n-1), 1000) ms, and a client given maxRetries only (with   *)
(* or without the delays) still retries a 503 and never a 404.             *)
(***************************************************************************)
\* failed attempt n of call c was answered and then retried
AnswerRetried(c, n) ==
    invocations[c] > n \/ (pc[c] = "backoff" /\ attempt[c] = n)

DefaultStatuses == {408, 429, 500, 502, 503, 504}

DefaultBase(n) == IF 100 * 2^(n - 1) <= 1000 THEN 100 * 2^(n - 1) ELSE 1000

C19_UnsuppliedOptionsKeepDefaults ==
    /\ \A k \in {"maxRetries", "initialDelay", "maxDelay", "jitter",
                 "retryableStatuses", "shouldRetry"} :
           config[k] = IF k \in DOMAIN config.retry THEN config.retry[k]
                       ELSE DEFAULT_CONFIG[k]
    /\ DOMAIN config.retry = {} =>
           /\ config.maxRetries = 3 /\ config.initialDelay = 100
           /\ config.maxDelay = 1000 /\ config.jitter = [num |-> 1, den |-> 10]
           /\ config.retryableStatuses = DefaultStatuses
           /\ config.shouldRetry = "default"
           /\ \A c \in Calls : \A n \in 1..Len(outcomes[c]) :
                  (Answered(c, n) /\ Failed(c, n)) =>
                      (AnswerRetried(c, n) <=>
                           (n <= 3 /\ outcomes[c][n].status \in DefaultStatuses))
           /\ \A c \in Calls :
                  pc[c] = "backoff" =>
                      /\ 9 * DefaultBase(attempt[c]) * RandomScale <= wait[c]
                      /\ wait[c] <= 11 * DefaultBase(attempt[c]) * RandomScale
    /\ ("maxRetries" \in DOMAIN config.retry
            /\ {"retryableStatuses", "shouldRetry"} \cap DOMAIN config.retry = {}) =>
           \A c \in Calls : \A n \in 1..Len(outcomes[c]) :
               (Answered(c, n) /\ Failed(c, n)) =>
                   (AnswerRetried(c, n) <=>
                        (n <= config.retry.maxRetries
                            /\ outcomes[c][n].status \in DefaultStatuses))

\* without retry configuration: three retried 503 answers and the call rejected
\* by the fourth
C19_Witness ==
    \E c \in Calls :
        /\ DOMAIN config.retry = {}
        /\ pc[c] = "rejected" /\ invocations[c] = 4
        /\ \A n \in 1..4 : Answered(c, n) /\ outcomes[c][n].status = 503

(***************************************************************************)
(* C20: in every request the transport receives, first attempt or retry,   *)
(* each header key carries the value the call's options give it, or else   *)
(* the client-level value, and is absent when neither gives one.           *)
(***************************************************************************)
HeaderKeys == {"accept", "x-test", "authorization"}

C20_HeadersMergedPerCallFirst ==
    \A c \in Calls : \A k \in DOMAIN sent[c] :
        LET got == sent[c][k].headers
        IN \A key \in HeaderKeys :
               IF key \in DOMAIN init[c].headers
               THEN key \in DOMAIN got /\ got[key] = init[c].headers[key]
               ELSE IF key \in DOMAIN config.headers
                    THEN key \in DOMAIN got /\ got[key] = config.headers[key]
                    ELSE key \notin DOMAIN got

\* the request of a retry with one key from the call over the client's value,
\* one key from the client alone and one key absent
C20_Witness ==
    \E c \in Calls :
        /\ Len(sent[c]) >= 2
        /\ DOMAIN config.headers = {"accept", "x-test"}
        /\ DOMAIN init[c].headers = {"x-test"}
        /\ sent[c][2].headers["x-test"] = "call"
        /\ sent[c][2].headers["accept"] = "client"


(***************************************************************************)
(* C26: shouldRetry is called exactly once for each failed attempt whose   *)
(* number is at most maxRetries and whose failure is an HttpError, with    *)
(* that error and that number, also when the status is not one of          *)
(* retryableStatuses; it is never called for an abort, for a rejection of  *)
(* the transport, or in attempt maxRetries + 1, and so never when          *)
(* maxRetries is 0.                                                        *)
(***************************************************************************)
\* the attempts of call c that failed with an HttpError within maxRetries
ShouldRetryDue(c) ==
    {n \in 1..Len(outcomes[c]) :
        Failed(c, n) /\ Answered(c, n) /\ n <= config.maxRetries}

C26_ShouldRetryOncePerHttpFailure ==
    \A c \in Calls :
        LET calls == asked[c]
            due == ShouldRetryDue(c)
        IN /\ Len(calls) = Cardinality(due)
           /\ \A n \in due :
                  \E k \in DOMAIN calls :
                      /\ calls[k].attempt = n
                      /\ calls[k].error = FailureOf(c, n)
                      /\ \A j \in DOMAIN calls : calls[j].attempt = n => j = k
           /\ \A k \in DOMAIN calls :
                  /\ calls[k].error.name = "HttpError"
                  /\ calls[k].attempt \in 1..config.maxRetries
           /\ config.maxRetries = 0 => calls = <<>>

\* a call rejected with a 404 that is not retryable: shouldRetry was asked
\* about it all the same, once
C26_Witness ==
    \E c \in Calls :
        /\ pc[c] = "rejected" /\ invocations[c] = 1
        /\ Len(asked[c]) = 1
        /\ asked[c][1].error.status \notin config.retryableStatuses


(***************************************************************************)
(* C29: within one call the attempt numbers carried by its successive      *)
(* request:error events are 1, 2, 3, ... without gap or repeat; the        *)
(* attempt number never exceeds maxRetries + 1; and the request:retry      *)
(* events of the call, like its backoff waits, are never more than         *)
(* maxRetries.                                                             *)
(***************************************************************************)
CallRetries(c) == SelectSeq(events, LAMBDA e : e.call = c /\ e.kind = "retry")

\* the backoff waits call c has begun: one before each attempt after the
\* first, and the one it is in
BackoffWaits(c) ==
    IF pc[c] = "idle" THEN 0
    ELSE (invocations[c] - 1) + (IF pc[c] = "backoff" THEN 1 ELSE 0)

C29_AttemptNumbersDense ==
    \A c \in Calls :
        LET errs == CallErrors(c)
            retries == CallRetries(c)
        IN /\ \A k \in DOMAIN errs : errs[k].attempt = k
           /\ attempt[c] <= config.maxRetries + 1
           /\ \A k \in DOMAIN errs : errs[k].attempt <= config.maxRetries + 1
           /\ Len(retries) <= config.maxRetries
           /\ BackoffWaits(c) = Len(retries)

\* a call with maxRetries 2 rejected at its third attempt: request:error with
\* 1, 2 and 3, and two request:retry
C29_Witness ==
    \E c \in Calls :
        /\ config.maxRetries = 2
        /\ pc[c] = "rejected" /\ attempt[c] = 3
        /\ Len(CallErrors(c)) = 3 /\ CallErrors(c)[3].attempt = 3
        /\ Len(CallRetries(c)) = 2


(***************************************************************************)
(* C24: the timeout timer of an attempt is cleared on every exit path of   *)
(* the attempt (a response of any status, a rejection of the transport,    *)
(* the timeout firing), so a settled call has no timer of any of its       *)
(* attempts pending.                                                       *)
(***************************************************************************)
\* the pending timeout timers armed by call c
TimersOf(c) == {t \in timers : t.controller.call = c}

C24_NoTimerAfterSettled ==
    \A c \in Calls : Settled(c) => TimersOf(c) = {}

(***************************************************************************)
(* C25: the timeout is per attempt: every attempt has a cancellation       *)
(* signal of its own and, when a timeout is configured, a single-shot      *)
(* timer of its own with the full configured duration, whatever the        *)
(* attempts and waits before it took; a timer aborts only the transport    *)
(* call of the attempt it was armed for, never a later attempt.            *)
(***************************************************************************)
OwnSignalAndTimer(c) ==
    /\ \A j \in DOMAIN sent[c] : \A k \in DOMAIN sent[c] :
           j # k => sent[c][j].signal # sent[c][k].signal
    /\ \A t \in TimersOf(c) :
           /\ t.ms = config.timeout
           /\ \E k \in DOMAIN sent[c] : sent[c][k].signal = t.controller
    /\ pc[c] = "fetching" =>
           LET own == {t \in timers : t.controller = Last(sent[c]).signal}
           IN IF config.timeout = 0
              THEN TimersOf(c) = {}
              ELSE own = TimersOf(c) /\ Cardinality(own) = 1

\* a step that aborts the attempt call c awaits is the firing of the timer
\* armed with the signal given to the transport for that attempt
AbortedByOwnTimer(c) ==
    AbortedInStep(c) =>
        \E t \in timers :
            /\ timers' = timers \ {t}
            /\ t.controller = Last(sent[c]).signal
            /\ Len(sent[c]) = attempt[c]
            /\ Len(outcomes[c]) = attempt[c] - 1

C25_TimeoutPerAttempt ==
    /\ [](\A c \in Calls : OwnSignalAndTimer(c))
    /\ [][\A c \in Calls : AbortedByOwnTimer(c)]_vars

\* a second attempt awaiting the transport with a timer of its own, of the
\* full duration, after the first attempt and its backoff wait
C25_Witness ==
    \E c \in Calls :
        /\ pc[c] = "fetching" /\ attempt[c] = 2
        /\ \E t \in timers : /\ t.controller = sent[c][2].signal
                             /\ t.ms = config.timeout /\ t.ms > 0
        /\ sent[c][1].signal # sent[c][2].signal

(***************************************************************************)
(* C30: at every moment at most one timeout timer armed by a call is       *)
(* pending, and none is pending while the call waits out a backoff delay:  *)
(* a retry is granted only after a response was received and the timer     *)
(* cleared.                                                                *)
(***************************************************************************)
C30_AtMostOneTimerPerCall ==
    \A c \in Calls :
        /\ Cardinality(TimersOf(c)) <= 1
        /\ pc[c] = "backoff" =>
               /\ TimersOf(c) = {}
               /\ Answered(c, attempt[c])

\* a client with a timeout whose call waits out a backoff delay
C30_Witness ==
    \E c \in Calls :
        /\ config.timeout > 0
        /\ pc[c] = "backoff" /\ attempt[c] = 1


(***************************************************************************)
(* C21: get, post, put, delete and patch run the attempts and retries of   *)
(* fetch with the method fixed to GET, POST, PUT, DELETE and PATCH, over   *)
(* any method given in the options; every other option given (body,        *)
(* headers) goes through unchanged on every attempt, and a successful call *)
(* returns the response of the transport as it is.                         *)
(***************************************************************************)
Shorthands == {"get", "post", "put", "delete", "patch"}

MethodOfShorthand(via) ==
    CASE via = "get" -> "GET" [] via = "post" -> "POST" [] via = "put" -> "PUT"
      [] via = "delete" -> "DELETE" [] via = "patch" -> "PATCH"

\* what fetch would be given to behave as the call made through `via`
AsFetchOptions(via, supplied) ==
    IF via \in Shorthands
    THEN [method |-> MethodOfShorthand(via), headers |-> supplied.headers,
          body |-> supplied.body, signal |-> supplied.signal]
    ELSE supplied

C21_ShorthandsAreFetchWithMethod ==
    \A c \in Calls :
        pc[c] # "idle" =>
            LET options == AsFetchOptions(called[c].via, called[c].init)
            IN /\ init[c] = options
               /\ \A k \in DOMAIN sent[c] :
                      /\ sent[c][k].method = options.method
                      /\ sent[c][k].body = called[c].init.body
                      /\ \A h \in DOMAIN called[c].init.headers :
                             sent[c][k].headers[h] = called[c].init.headers[h]
                      /\ sent[c][k].url = UrlOf(c)
               /\ \A j \in DOMAIN events :
                      (events[j].call = c /\ events[j].kind = "start") =>
                          events[j].init = options
               /\ OwnRetryDecisions(c)
               /\ pc[c] = "resolved" =>
                      /\ result[c] = Last(outcomes[c])
                      /\ result[c].kind = "response"

\* post called with a body and with a method of its own in the options: a
\* first attempt retried and a second one answered 200, both sent as POST
C21_Witness ==
    \E c \in Calls :
        /\ pc[c] = "resolved" /\ Len(sent[c]) = 2
        /\ called[c].via = "post" /\ called[c].init.method = "OPTIONS"
        /\ called[c].init.body = "payload"
        /\ sent[c][1].method = "POST" /\ sent[c][2].method = "POST"
        /\ sent[c][2].body = "payload"


(***************************************************************************)
(* C27: a subscriber that throws interrupts the request flow: when a       *)
(* request:start subscriber throws, the transport is not invoked for that  *)
(* attempt; when a subscriber of any of the four kinds throws an ordinary  *)
(* exception, no retry is started, no request:start of a later attempt is  *)
(* emitted, and the call rejects with that exception, or, when the         *)
(* exception came from request:start or request:end and a request:error    *)
(* subscriber throws in turn on its emission, with the exception of that   *)
(* request:error subscriber.                                               *)
(***************************************************************************)
\* the invocations, of call c, in which the listener threw
ThrowingInvocations(c) ==
    SelectSeq(delivered, LAMBDA d : d.call = c /\ Throws(d.listener))

\* the flow of call c stopped in the attempt of invocation d
InterruptedAt(c, d) ==
    /\ pc[c] = "rejected"
    /\ attempt[c] = d.attempt
    /\ \A j \in DOMAIN events :
           events[j].call = c => events[j].attempt <= d.attempt
    /\ ~HasEvent("retry", c, d.attempt) \/ d.kind = "retry"
    /\ d.kind = "start" => Len(sent[c]) = d.attempt - 1
    /\ d.kind = "start" => invocations[c] = d.attempt - 1
    /\ d.kind \in {"start", "end"} =>
           HasEvent("error", c, d.attempt) /\
           \E j \in DOMAIN events :
               /\ events[j].kind = "error" /\ events[j].call = c
               /\ events[j].error = ListenerError(d)

\* the claim as it was made: the call rejects with the exception of whichever
\* subscriber threw
C27_Original ==
    \A c \in Calls :
        LET thrown == ThrowingInvocations(c)
        IN \A k \in DOMAIN thrown :
               /\ InterruptedAt(c, thrown[k])
               /\ result[c] = ListenerError(thrown[k])

C27_ThrowingSubscriberInterrupts ==
    \A c \in Calls :
        LET thrown == ThrowingInvocations(c)
        IN /\ \A k \in DOMAIN thrown : InterruptedAt(c, thrown[k])
           /\ thrown # <<>> => result[c] = ListenerError(Last(thrown))
           /\ Len(thrown) <= 2
           /\ Len(thrown) = 2 =>
                  /\ thrown[1].kind \in {"start", "end"}
                  /\ thrown[2].kind = "error"

\* request:end and request:error both have a subscriber that throws: the call
\* is rejected with the exception of the request:error subscriber, which was
\* called with the exception of the request:end subscriber
C27_Witness ==
    \E c \in Calls :
        LET thrown == ThrowingInvocations(c)
        IN /\ Len(thrown) = 2
           /\ thrown[1].kind = "end" /\ thrown[2].kind = "error"
           /\ thrown[2].args.error = ListenerError(thrown[1])
           /\ pc[c] = "rejected" /\ result[c] = ListenerError(thrown[2])


(***************************************************************************)
(* C28: the subscribers registered with on() for a kind are invoked within *)
(* the step that emits an event of the kind, in the order they were        *)
(* registered in, each with the payload of the kind (start: url, options;  *)
(* end: url, response; error and retry: url, error, attempt); a subscriber *)
(* removed with off() is not invoked by later emissions; and no step of a  *)
(* fetch call adds or removes a subscriber.                                *)
(***************************************************************************)
NewEvents == SubSeq(events', Len(events) + 1, Len(events'))
NewInvocations == SubSeq(delivered', Len(delivered) + 1, Len(delivered'))

IsInvocationOf(d, e) ==
    d.kind = e.kind /\ d.call = e.call /\ d.attempt = e.attempt

\* the listeners invoked in this step for event e, in the order of invocation
InvokedFor(e) ==
    LET ds == SelectSeq(NewInvocations, LAMBDA d : IsInvocationOf(d, e))
    IN [k \in DOMAIN ds |-> ds[k].listener]

IsPrefix(a, b) == Len(a) <= Len(b) /\ \A k \in DOMAIN a : a[k] = b[k]

HasPayloadOf(d, e) ==
    /\ d.args.url = e.url
    /\ e.kind = "start" => DOMAIN d.args = {"url", "init"} /\ d.args.init = e.init
    /\ e.kind = "end" =>
           DOMAIN d.args = {"url", "status"} /\ d.args.status = e.status
    /\ e.kind \in {"error", "retry"} =>
           /\ DOMAIN d.args = {"url", "error", "attempt"}
           /\ d.args.error = e.error /\ d.args.attempt = e.attempt

EmittedToSubscribers ==
    /\ \A j \in DOMAIN NewEvents :
           LET e == NewEvents[j]
               ls == InvokedFor(e)
           IN /\ IsPrefix(ls, subs[e.kind])
              /\ Len(ls) < Len(subs[e.kind]) => ls # <<>> /\ Throws(Last(ls))
              /\ \A k \in DOMAIN ls : k < Len(ls) => ~Throws(ls[k])
    /\ \A a \in DOMAIN NewInvocations :
           \E j \in DOMAIN NewEvents :
               /\ IsInvocationOf(NewInvocations[a], NewEvents[j])
               /\ HasPayloadOf(NewInvocations[a], NewEvents[j])
               /\ \A b \in DOMAIN NewInvocations : \A i \in DOMAIN NewEvents :
                      (a < b /\ IsInvocationOf(NewInvocations[b], NewEvents[i]))
                          => j <= i
    /\ IsPrefix(delivered, delivered')

\* only on() and off() change the subscribers, and they do nothing else
SubscribersChangedByCallerOnly ==
    subs' # subs =>
        /\ events' = events /\ delivered' = delivered
        /\ pc' = pc /\ attempt' = attempt /\ result' = result

C28_SubscribersInvokedInOrder ==
    [][EmittedToSubscribers /\ SubscribersChangedByCallerOnly]_vars

\* "second" and "first" were registered for request:start in that order and
\* both invoked, in that order, by the first attempt; "second" was removed
\* during the backoff wait, and the second attempt invoked "first" alone
C28_Witness ==
    /\ Len(delivered) = 3
    /\ delivered[1].listener = "second" /\ delivered[1].attempt = 1
    /\ delivered[2].listener = "first" /\ delivered[2].attempt = 1
    /\ delivered[3].listener = "first" /\ delivered[3].attempt = 2
    /\ \A k \in 1..3 : delivered[k].kind = "start"
    /\ subs["start"] = <<"first">>
    /\ pc[1] = "fetching"


(***************************************************************************)
(* C22: for an HttpError with status s, hasStatus(x) is true iff s = x;    *)
(* hasStatusInRange(min, max) is true iff min <= s <= max, both ends       *)
(* included; isClientError() is true iff 400 <= s <= 499; isServerError()  *)
(* is true iff 500 <= s <= 599; the last two are never both true; and no   *)
(* method changes a field of the error.                                    *)
(***************************************************************************)
AnswerIs(method, expected) == probe.method = method => probe.value = expected

StatusPredicatesAnswer ==
    LET s == probe.error.status
    IN /\ probe.method = "hasStatus" => probe.value = (s = probe.args[1])
       /\ probe.method = "hasStatusInRange" =>
              probe.value = (s \in probe.args[1]..probe.args[2])
       /\ AnswerIs("isClientError", s \in 400..499)
       /\ AnswerIs("isServerError", s \in 500..599)
       /\ ~(IsClientError(probe.error) /\ IsServerError(probe.error))

C22_StatusPredicates ==
    /\ []StatusPredicatesAnswer
    /\ [][probe'.error = probe.error]_vars

\* an error with status 499 asked whether its status lies in 404..499: the
\* upper end counts
C22_Witness ==
    /\ probe.method = "hasStatusInRange"
    /\ probe.error.status = 499 /\ probe.args = <<404, 499>>
    /\ probe.value = TRUE

(***************************************************************************)
(* C23: responseContains(text) is false for every text when the HttpError  *)
(* was built without a response body; when a body was captured it is true  *)
(* iff text is a substring of the JSON serialisation of the body, property *)
(* names included.                                                         *)
(***************************************************************************)
C23_ContainsIffSubstringOfJson ==
    probe.method = "responseContains" =>
        LET body == probe.error.responseBody
        IN probe.value = IF body = Undefined THEN FALSE
                         ELSE Includes(Stringify(body), probe.args[1])


(***************************************************************************)
(* C31: once the transport has returned a response for an attempt, the     *)
(* attempt can no longer end as a timeout: its timer is cleared before     *)
(* request:end is emitted and before the body of a non-2xx response is     *)
(* read, so no attempt both emits request:end and fails with an abort      *)
(* error, and no timer runs against the reading of the error body.         *)
(***************************************************************************)
\* attempt n of call c ended with the abort of its transport call
EndedAsTimeout(c, n) ==
    /\ n \in 1..Len(outcomes[c])
    /\ outcomes[c][n].kind = "error" /\ outcomes[c][n].name = "AbortError"

C31_NoTimeoutAfterResponse ==
    \A c \in Calls :
        /\ pc[c] = "reading" => TimersOf(c) = {}
        /\ \A t \in TimersOf(c) : ~Answered(c, t.controller.attempt)
        /\ \A j \in DOMAIN events :
               (events[j].call = c /\ events[j].kind = "end") =>
                   /\ Answered(c, events[j].attempt)
                   /\ ~EndedAsTimeout(c, events[j].attempt)
                   /\ \A t \in timers :
                          t.controller # Controller(c, events[j].attempt)
        /\ \A n \in 1..Len(outcomes[c]) :
               EndedAsTimeout(c, n) => ~HasEvent("end", c, n)

\* a client with a timeout reads the body of the non-2xx answer to its second
\* attempt: request:end is out and no timer of the call is pending
C31_Witness ==
    \E c \in Calls :
        /\ "timeout" \in DOMAIN config /\ config.timeout > 0
        /\ pc[c] = "reading" /\ attempt[c] = 2
        /\ HasEvent("end", c, 2)
        /\ TimersOf(c) = {}


(***************************************************************************)
(* C32: the last event of a call that resolved is the request:end of a 2xx *)
(* response, and the last event of a call that rejected is a               *)
(* request:error; request:retry and request:start are never the last event *)
(* of a settled call (no subscriber throws, shouldRetry returns).          *)
(***************************************************************************)
C32_LastEventOfSettledCall ==
    \A c \in Calls :
        Settled(c) =>
            LET log == CallEvents(c)
                last == log[Len(log)]
            IN /\ log # <<>>
               /\ last.kind \notin {"retry", "start"}
               /\ last.attempt = attempt[c]
               /\ pc[c] = "resolved" =>
                      /\ last.kind = "end"
                      /\ last.status \in 200..299
                      /\ last.status = result[c].status
               /\ pc[c] = "rejected" =>
                      /\ last.kind = "error"
                      /\ last.error = result[c]

\* a call rejected in its last allowed attempt, with a retryable status:
\* request:retry was emitted for the attempts before, not for this one
C32_Witness ==
    \E c \in Calls :
        /\ pc[c] = "rejected" /\ attempt[c] = config.maxRetries + 1
        /\ attempt[c] >= 2
        /\ result[c].name = "HttpError"
        /\ result[c].status \in config.retryableStatuses
        /\ HasEvent("retry", c, 1)
        /\ Last(CallEvents(c)).kind = "error"


(***************************************************************************)
(* C34: a timeout of 0 is treated like a timeout that was not given: no    *)
(* timer is armed for any attempt and no attempt is ever aborted by the    *)
(* client; with a timeout above 0 a timer is armed at the start of every   *)
(* attempt.                                                                *)
(***************************************************************************)
NoTimeoutGiven == "timeout" \notin DOMAIN config

\* call c begins an attempt in this step: its request goes to the transport
AttemptBegins(c) == Len(sent'[c]) = Len(sent[c]) + 1

NeverArmedNorAborted ==
    /\ timers = {}
    /\ \A c \in Calls : \A n \in 1..Len(outcomes[c]) : ~EndedAsTimeout(c, n)
    /\ \A j \in DOMAIN events :
           events[j].kind = "error" => events[j].error.name # "AbortError"

C34_TimeoutZeroIsNoTimeout ==
    /\ []((NoTimeoutGiven \/ config.timeout = 0) => NeverArmedNorAborted)
    /\ [][\A c \in Calls :
              AttemptBegins(c) =>
                  IF NoTimeoutGiven \/ config.timeout = 0
                  THEN timers' = timers
                  ELSE /\ config.timeout > 0
                       /\ \E t \in timers' \ timers :
                              /\ t.controller = Last(sent'[c]).signal
                              /\ t.ms = config.timeout
                              /\ timers' = timers \cup {t}]_vars

\* a client built with timeout 0 awaits the transport in its second attempt:
\* no timer was armed for either attempt
C34_Witness ==
    \E c \in Calls :
        /\ ~NoTimeoutGiven /\ config.timeout = 0
        /\ pc[c] = "fetching" /\ attempt[c] = 2
        /\ timers = {}


(***************************************************************************)
(* C33: a signal the caller supplies in the request options never reaches  *)
(* the transport: every transport invocation receives the signal of the    *)
(* controller of its own attempt, so aborting the caller's signal cancels  *)
(* neither an attempt in flight nor a backoff wait, and an attempt is      *)
(* cancelled by its own timeout only.                                      *)
(***************************************************************************)
SuppliedSignal(c) == pc[c] # "idle" /\ init[c].signal = CallerSignal(c)

CallerAbortsInStep(c) == aborted[c] = NoValue /\ aborted'[c] # NoValue

C33_CallerSignalNeverReachesTransport ==
    /\ [](\A c \in Calls : \A k \in DOMAIN sent[c] :
              /\ sent[c][k].signal = Controller(c, k)
              /\ sent[c][k].signal # CallerSignal(c)
              /\ sent[c][k].signal # init[c].signal)
    /\ [][\A c \in Calls :
              /\ CallerAbortsInStep(c) =>
                     UNCHANGED <<pc, attempt, timers, wait, pending, result, events,
                                 invocations, outcomes, sent, asked, delivered>>
              /\ AbortedByOwnTimer(c)]_vars

\* the caller aborted the signal it supplied while the second attempt was in
\* flight, and the call went on to resolve
C33_Witness ==
    \E c \in Calls :
        /\ SuppliedSignal(c)
        /\ aborted[c] # NoValue /\ aborted[c].during = "fetching"
        /\ aborted[c].attempt = 2
        /\ pc[c] = "resolved" /\ attempt[c] = 2

\* the caller aborted the signal it supplied during the backoff wait, and the
\* second attempt began all the same
C33_BackoffNotCancelled ==
    \E c \in Calls :
        /\ SuppliedSignal(c)
        /\ aborted[c] # NoValue /\ aborted[c].during = "backoff"
        /\ pc[c] = "fetching" /\ attempt[c] = 2
====
